---- MODULE Spec2Model ----
(***************************************************************************)
(* A model of the broker-recommendations service: the request handlers     *)
(* (src/src/handlers.py) and the MoneyControl crawler (src/src/crawler.py):*)
(* its acquisition cascade, its content parser, and the name, broker and   *)
(* price extractors the parser is built from.                              *)
(*                                                                         *)
(* Text is kept as TLA+ strings and read character by character; the       *)
(* regular expressions of the source are written out as matchers over      *)
(* character positions.  Prices are held in hundredths of a rupee, so that *)
(* "2500.75" is 250075 and the float 3000.0 is 300000.                     *)
(***************************************************************************)
EXTENDS Integers, Sequences, FiniteSets, TLC

(***************************************************************************)
(* Characters and strings                                                  *)
(***************************************************************************)

\* The character of s at position i, "" outside the string.
At(s, i) == IF i >= 1 /\ i <= Len(s) THEN SubSeq(s, i, i) ELSE ""

\* s from position i to its end.
From(s, i) == SubSeq(s, i, Len(s))

Digit == {"0", "1", "2", "3", "4", "5", "6", "7", "8", "9"}

UpperLetter ==
    {"A", "B", "C", "D", "E", "F", "G", "H", "I", "J", "K", "L", "M",
     "N", "O", "P", "Q", "R", "S", "T", "U", "V", "W", "X", "Y", "Z"}

LowerLetter ==
    {"a", "b", "c", "d", "e", "f", "g", "h", "i", "j", "k", "l", "m",
     "n", "o", "p", "q", "r", "s", "t", "u", "v", "w", "x", "y", "z"}

Letter == UpperLetter \cup LowerLetter

\* \s of the regular expressions.
Space == {" ", "\t", "\n"}

\* \w of the regular expressions.
WordChar == Letter \cup Digit \cup {"_"}

LowerMap ==
    ("A" :> "a") @@ ("B" :> "b") @@ ("C" :> "c") @@ ("D" :> "d") @@
    ("E" :> "e") @@ ("F" :> "f") @@ ("G" :> "g") @@ ("H" :> "h") @@
    ("I" :> "i") @@ ("J" :> "j") @@ ("K" :> "k") @@ ("L" :> "l") @@
    ("M" :> "m") @@ ("N" :> "n") @@ ("O" :> "o") @@ ("P" :> "p") @@
    ("Q" :> "q") @@ ("R" :> "r") @@ ("S" :> "s") @@ ("T" :> "t") @@
    ("U" :> "u") @@ ("V" :> "v") @@ ("W" :> "w") @@ ("X" :> "x") @@
    ("Y" :> "y") @@ ("Z" :> "z")

DigitMap ==
    ("0" :> 0) @@ ("1" :> 1) @@ ("2" :> 2) @@ ("3" :> 3) @@ ("4" :> 4) @@
    ("5" :> 5) @@ ("6" :> 6) @@ ("7" :> 7) @@ ("8" :> 8) @@ ("9" :> 9)

LowerChar(c) == IF c \in UpperLetter THEN LowerMap[c] ELSE c

\* str.lower(), the string taken by halves.
RECURSIVE Lower(_)
Lower(s) ==
    IF Len(s) <= 1 THEN LowerChar(s)
    ELSE Lower(SubSeq(s, 1, Len(s) \div 2)) \o Lower(SubSeq(s, Len(s) \div 2 + 1, Len(s)))

\* The literal lit stands in s at position i.
LitAt(s, i, lit) == i >= 1 /\ i + Len(lit) - 1 <= Len(s) /\ SubSeq(s, i, i + Len(lit) - 1) = lit

\* The literal lit (given in lower case) stands in s at i, whatever the case (re.I).
LitAtI(s, i, lit) ==
    i >= 1 /\ i + Len(lit) - 1 <= Len(s) /\ Lower(SubSeq(s, i, i + Len(lit) - 1)) = lit

\* sub in s
Contains(s, sub) == \E i \in 1..(Len(s) - Len(sub) + 1) : LitAt(s, i, sub)

\* The position after the longest run of characters of set cls that starts at i.
RECURSIVE SkipSet(_, _, _)
SkipSet(s, i, cls) == IF At(s, i) \in cls THEN SkipSet(s, i + 1, cls) ELSE i

SkipWs(s, i) == SkipSet(s, i, Space)

\* Every character of s is of cls.
AllIn(s, cls) == \A i \in 1..Len(s) : At(s, i) \in cls

\* \b of the regular expressions: a word boundary before position i.
Boundary(s, i) == (At(s, i - 1) \in WordChar) # (At(s, i) \in WordChar)

Min(S) == CHOOSE x \in S : \A y \in S : x <= y
Max(S) == CHOOSE x \in S : \A y \in S : x >= y

\* str.strip()
RECURSIVE LStrip(_)
LStrip(s) == IF s # "" /\ Head(s) \in Space THEN LStrip(Tail(s)) ELSE s
RECURSIVE RStrip(_)
RStrip(s) ==
    IF s # "" /\ At(s, Len(s)) \in Space THEN RStrip(SubSeq(s, 1, Len(s) - 1)) ELSE s
Strip(s) == RStrip(LStrip(s))

\* re.sub(r"\s+", " ", s)
\* Positions lo to hi of s, every run of white space made one space (the string taken
\* by halves).
RECURSIVE CollapseBetween(_, _, _)
CollapseBetween(s, lo, hi) ==
    IF lo > hi THEN ""
    ELSE IF lo = hi
    THEN (IF At(s, lo) \notin Space THEN At(s, lo) ELSE IF At(s, lo - 1) \in Space THEN "" ELSE " ")
    ELSE CollapseBetween(s, lo, (lo + hi) \div 2) \o CollapseBetween(s, (lo + hi) \div 2 + 1, hi)

CollapseWs(s) == CollapseBetween(s, 1, Len(s))

\* str.split()[0], "" when the string holds no word.
FirstWord(s) ==
    LET t == LStrip(s)
        e == SkipSet(t, 1, {At(t, k) : k \in 1..Len(t)} \ Space)
    IN SubSeq(t, 1, e - 1)

(***************************************************************************)
(* Company names: validity and cleaning                                    *)
(***************************************************************************)

invalid_names ==
    {"all stats", "view all", "read more", "click here", "see more", "home",
     "about", "contact", "login", "register", "search", "menu", "portfolio",
     "watchlist", "news", "research", "analysis", "market", "stock", "share",
     "price", "chart", "data", "report"}

non_company_words == {"the", "and", "or", "for", "with", "from", "to", "by", "at", "on", "in"}

\* Number of digits in s.
DigitCount(s) == Cardinality({i \in 1..Len(s) : At(s, i) \in Digit})

is_valid_company_name(name) ==
    IF name = "" \/ Len(name) < 3 \/ Len(name) > 50 THEN FALSE
    ELSE IF Lower(name) \in invalid_names THEN FALSE
    ELSE IF ~ \E i \in 1..Len(name) : At(name, i) \in Letter THEN FALSE
    ELSE IF 2 * DigitCount(name) > Len(name) THEN FALSE
    ELSE IF FirstWord(Lower(name)) \in non_company_words THEN FALSE
    ELSE TRUE

\* re.sub(r"^(?:Buy|Sell|Hold)\s+", "", s, flags=re.I)
StripVerdictPrefix(s) ==
    LET hit == {w \in {"buy", "sell", "hold"} : LitAtI(s, 1, w) /\ At(s, Len(w) + 1) \in Space}
    IN IF hit = {} THEN s
       ELSE LET w == CHOOSE w \in hit : TRUE IN From(s, SkipWs(s, Len(w) + 1))

\* ";\s*target\s+of\s+Rs\s*\d+" stands at i: the position after its digits, 0 if not.
TargetClauseAt(s, i) ==
    IF At(s, i) # ";" THEN 0
    ELSE LET a == SkipWs(s, i + 1)
             b == SkipWs(s, a + 6)
             c == SkipWs(s, b + 2)
             d == SkipWs(s, c + 2)
         IN IF /\ LitAtI(s, a, "target") /\ b > a + 6
               /\ LitAtI(s, b, "of") /\ c > b + 2
               /\ LitAtI(s, c, "rs")
               /\ At(s, d) \in Digit
            THEN SkipSet(s, d, Digit) ELSE 0

\* ".*$" from position e: to the end of s, or to a final newline; 0 if neither.
DotStarEnd(s, e) ==
    LET nl == {k \in e..Len(s) : At(s, k) = "\n"}
    IN IF nl = {} THEN Len(s) + 1
       ELSE IF nl = {Len(s)} THEN Len(s)
       ELSE 0

\* re.sub(r";\s*target\s+of\s+Rs\s*\d+.*$", "", s, flags=re.I)
StripTargetClause(s) ==
    LET hit == {i \in 1..Len(s) : TargetClauseAt(s, i) > 0 /\ DotStarEnd(s, TargetClauseAt(s, i)) > 0}
    IN IF hit = {} THEN s
       ELSE LET i == Min(hit)
            IN SubSeq(s, 1, i - 1) \o From(s, DotStarEnd(s, TargetClauseAt(s, i)))

BrokerTailClass == Letter \cup Space \cup {"&", "."}

\* The name with its ": text" tail left on.
KeepColonTail(s) == s

\* re.sub(r":\s*[A-Za-z\s&\.]+$", "", s, flags=re.I)
StripColonTail(s) ==
    LET hit == {i \in 1..Len(s) : At(s, i) = ":" /\ i < Len(s) /\ AllIn(From(s, i + 1), BrokerTailClass)}
    IN IF hit = {} THEN s ELSE SubSeq(s, 1, Min(hit) - 1)

clean_company_name(company_name) ==
    IF company_name = "" THEN ""
    ELSE Strip(CollapseWs(StripColonTail(StripTargetClause(StripVerdictPrefix(company_name)))))

(***************************************************************************)
(* Verdict                                                                 *)
(***************************************************************************)

\* str.upper() followed by a substring test, as a test on the lower-cased text.
ContainsI(s, sub) == Contains(Lower(s), sub)

\* extract_recommendation with the test for SELL ahead of the test for BUY.
extract_recommendation_sell_first(call_text) ==
    IF ContainsI(call_text, "sell") THEN "SELL"
    ELSE IF ContainsI(call_text, "buy") THEN "BUY"
    ELSE IF ContainsI(call_text, "hold") THEN "HOLD"
    ELSE "BUY"

extract_recommendation(call_text) ==
    IF ContainsI(call_text, "buy") \/ ContainsI(call_text, "buys") THEN "BUY"
    ELSE IF ContainsI(call_text, "sell") \/ ContainsI(call_text, "sells") THEN "SELL"
    ELSE IF ContainsI(call_text, "hold") \/ ContainsI(call_text, "holds") THEN "HOLD"
    ELSE "BUY"

(***************************************************************************)
(* Numbers in text                                                         *)
(***************************************************************************)

\* The least member of a set of positions, 0 when the set is empty.
First(S) == IF S = {} THEN 0 ELSE Min(S)

\* Of a set of pairs <<position, match>>, the match at the least position among
\* those that are not none; none when there is no such pair.
Leftmost(ms, none) ==
    LET hits == {m \in ms : m[2] # none}
    IN IF hits = {} THEN none ELSE (CHOOSE m \in hits : \A n \in hits : m[1] <= n[1])[2]

\* Position i when a digit stands there, 0 otherwise.
DigitAt(s, i) == IF At(s, i) \in Digit THEN i ELSE 0

\* \s+ at position i: the position after the white space, 0 if there is none.
Ws1(s, i) ==
    LET Moved(b) == IF b > i THEN b ELSE 0
    IN Moved(SkipWs(s, i))

\* The literal lit, whatever the case, at position i: the position after it, 0 if none.
LitEndI(s, i, lit) == IF LitAtI(s, i, lit) THEN i + Len(lit) ELSE 0

\* (?:w1|w2|...) at position i, whatever the case: the position after the word, 0 if none.
WordEndI(s, i, words) ==
    LET After(hit) == IF hit = {} THEN 0 ELSE i + Len(CHOOSE w \in hit : TRUE)
    IN After({w \in words : LitAtI(s, i, w)})

\* (?:,\d{3})* from position j: the position after the last group.
RECURSIVE SkipGroups(_, _)
SkipGroups(s, j) ==
    IF At(s, j) = "," /\ At(s, j + 1) \in Digit /\ At(s, j + 2) \in Digit /\ At(s, j + 3) \in Digit
    THEN SkipGroups(s, j + 4) ELSE j

\* \d+(?:,\d{3})*(?:\.\d+)? at position i: the position after the match, 0 if none.
NumEnd(s, i) ==
    LET Fraction(b) ==
            IF At(s, b) = "." /\ At(s, b + 1) \in Digit THEN SkipSet(s, b + 1, Digit) ELSE b
    IN IF At(s, i) \notin Digit THEN 0 ELSE Fraction(SkipGroups(s, SkipSet(s, i, Digit)))

\* The digits of t read as a whole number, commas dropped (str.replace(",", "")).
RECURSIVE WholeOf(_)
WholeOf(t) ==
    IF t = "" THEN 0
    ELSE IF At(t, Len(t)) \in Digit
    THEN 10 * WholeOf(SubSeq(t, 1, Len(t) - 1)) + DigitMap[At(t, Len(t))]
    ELSE WholeOf(SubSeq(t, 1, Len(t) - 1))

\* The digit c as a number, 0 for any other character.
DigitOr0(c) == IF c \in Digit THEN DigitMap[c] ELSE 0

\* float(t.replace(",", "")) in hundredths; digits after the second decimal are dropped.
ToFloat(t) ==
    LET Split(d) ==
            IF d = 0 THEN 100 * WholeOf(t)
            ELSE 100 * WholeOf(SubSeq(t, 1, d - 1)) + 10 * DigitOr0(At(t, d + 1)) + DigitOr0(At(t, d + 2))
    IN Split(First({k \in 1..Len(t) : At(t, k) = "."}))

\* The value of the number matched at position i.
NumAt(s, i) == ToFloat(SubSeq(s, i, NumEnd(s, i) - 1))

\* A whole number of rupees as a price.
Rupees(n) == 100 * n

\* The window left out: every price passes.
AnyPrice(price) == TRUE

\* 10 <= price <= 50000
InWindow(price) == Rupees(10) <= price /\ price <= Rupees(50000)

(***************************************************************************)
(* The patterns of _extract_prices.  Each matcher answers, for a position  *)
(* i, the position of the first digit of the captured number when the      *)
(* pattern stands at i, and 0 when it does not.  A matcher handed position *)
(* 0 answers 0, so the pieces of a pattern compose.                        *)
(***************************************************************************)

\* \.? at position i (0 stays 0).
OptDot(s, i) == IF At(s, i) = "." THEN i + 1 ELSE i

\* Rs\.?\s*(NUM)
RsNumAt(s, i) == DigitAt(s, SkipWs(s, OptDot(s, LitEndI(s, i, "rs"))))

\* [:\s]*Rs\.?\s*(NUM)
ColonRsNumAt(s, i) == RsNumAt(s, SkipSet(s, i, Space \cup {":"}))

\* of\s+Rs\.?\s*(NUM)
OfRsNumAt(s, i) == RsNumAt(s, Ws1(s, LitEndI(s, i, "of")))

\* target\s+of\s+Rs\.?\s*(NUM)
TargetOfAt(s, i) == OfRsNumAt(s, Ws1(s, LitEndI(s, i, "target")))

\* Target(?:\s*Price)?[:\s]*Rs\.?\s*(NUM)
TargetColonAt(s, i) ==
    LET Either(withPrice) == IF withPrice > 0 THEN withPrice ELSE ColonRsNumAt(s, i + 6)
    IN IF LitAtI(s, i, "target")
       THEN Either(ColonRsNumAt(s, LitEndI(s, SkipWs(s, i + 6), "price"))) ELSE 0

\* (?:TP|PT)[:\s]*Rs\.?\s*(NUM)
TpAt(s, i) == ColonRsNumAt(s, WordEndI(s, i, {"tp", "pt"}))

\* price\s+target\s+of\s+Rs\.?\s*(NUM)
PriceTargetOfAt(s, i) == TargetOfAt(s, Ws1(s, LitEndI(s, i, "price")))

\* (?:Reco|Current|CMP)\s*Price[:\s]*Rs\.?\s*(NUM)
RecoPriceAt(s, i) ==
    ColonRsNumAt(s, LitEndI(s, SkipWs(s, WordEndI(s, i, {"reco", "current", "cmp"})), "price"))

\* (?:at|@)
AtSignEnd(s, i) == IF At(s, i) = "@" THEN i + 1 ELSE LitEndI(s, i, "at")

\* (?:at|@)\s*Rs\.?\s*(NUM)
AtRsAt(s, i) == RsNumAt(s, SkipWs(s, AtSignEnd(s, i)))

\* CMP[:\s]*Rs\.?\s*(NUM)
CmpAt(s, i) == ColonRsNumAt(s, LitEndI(s, i, "cmp"))

\* re.search with one captured number: the number's value, -1 when nothing matches.
SearchNum(s, P(_, _)) ==
    LET Value(b) == IF b = 0 THEN -1 ELSE NumAt(s, b)
    IN Value(Leftmost({<<i, P(s, i)>> : i \in 1..Len(s)}, 0))

\* \s*-\s*(NUM) at position c, the end of a number: the position of the second number.
DashNumAt(s, c) == IF At(s, c) = "-" THEN DigitAt(s, SkipWs(s, c + 1)) ELSE 0

\* Rs\.?\s*(NUM)\s*-\s*(NUM): the position of the second number.
RangeAt(s, i) == DashNumAt(s, SkipWs(s, NumEnd(s, RsNumAt(s, i))))

\* re.search of the range pattern: <<price1, price2>>, << >> when nothing matches.
SearchRange(s) ==
    LET Value(i) == IF i = 0 THEN << >> ELSE <<NumAt(s, RsNumAt(s, i)), NumAt(s, RangeAt(s, i))>>
    IN Value(First({i \in 1..Len(s) : RangeAt(s, i) > 0}))

\* re.findall(r"Rs\.?\s*(NUM)", s, re.I) from position i on.
RECURSIVE FindAllRs(_, _)
FindAllRs(s, i) ==
    LET Rest(b) == IF b = 0 THEN << >> ELSE <<NumAt(s, b)>> \o FindAllRs(s, NumEnd(s, b))
    IN Rest(Leftmost({<<j, RsNumAt(s, j)>> : j \in i..Len(s)}, 0))

\* (?:at\s+)? at position b.
OptAt(s, b) ==
    LET Taken(c) == IF c > 0 THEN c ELSE b
    IN Taken(Ws1(s, LitEndI(s, b, "at")))

\* ,? at position f (0 stays 0).
OptComma(s, f) == IF At(s, f) = "," THEN f + 1 ELSE f

\* (?:buy|purchase)\s+(?:at\s+)?(NUM): the position of the number.
BuyAt(s, i) == DigitAt(s, OptAt(s, Ws1(s, WordEndI(s, i, {"buy", "purchase"}))))

\* \s*,?\s*(?:target|tp)\s+(NUM) at position e, the end of a number: the position of
\* the second number.
ThenTargetAt(s, e) ==
    DigitAt(s, Ws1(s, WordEndI(s, SkipWs(s, OptComma(s, SkipWs(s, e))), {"target", "tp"})))

\* (?:buy|purchase)\s+(?:at\s+)?(NUM)\s*,?\s*(?:target|tp)\s+(NUM):
\* <<position of the first number, position of the second>>, << >> if none at i.
BuyTargetAt(s, i) ==
    LET Second(c, k) == IF k > 0 THEN <<c, k>> ELSE << >>
        Both(c) == Second(c, ThenTargetAt(s, NumEnd(s, c)))
    IN Both(BuyAt(s, i))

SearchBuyTarget(s) ==
    LET Value(m) == IF m = << >> THEN << >> ELSE <<NumAt(s, m[1]), NumAt(s, m[2])>>
    IN Value(Leftmost({<<i, BuyTargetAt(s, i)>> : i \in 1..Len(s)}, << >>))

\* [/\-](NUM)\) at position e, the end of a number: the position of the second number.
SlashNumAt(s, e) ==
    LET Closed(f) == IF At(s, f) = ")" THEN e + 1 ELSE 0
    IN IF At(s, e) \in {"/", "-"} THEN Closed(NumEnd(s, e + 1)) ELSE 0

\* \((NUM)[/\-](NUM)\): the position of the second number.
BracketAt(s, i) == IF At(s, i) = "(" THEN SlashNumAt(s, NumEnd(s, i + 1)) ELSE 0

SearchBracket(s) ==
    LET Value(i) == IF i = 0 THEN << >> ELSE <<NumAt(s, i + 1), NumAt(s, BracketAt(s, i))>>
    IN Value(First({i \in 1..Len(s) : BracketAt(s, i) > 0}))

\* The length of the run of digits that starts at i.
DigitRun(s, i) == SkipSet(s, i, Digit) - i

\* \d{3,5} at position d, where the run of digits must be of at least 3: the position
\* after the group, which takes at most 5 digits; 0 if none.
UpTo5At(s, d) ==
    LET Take(r) == IF r < 3 THEN 0 ELSE IF r > 5 THEN d + 5 ELSE d + r
    IN Take(DigitRun(s, d))

\* (\d{3,5}) at position i, the group ending where its run of digits ends: the
\* position after it, 0 if none.
Run3To5At(s, i) ==
    LET Take(r) == IF r >= 3 /\ r <= 5 THEN i + r ELSE 0
    IN Take(DigitRun(s, i))

\* (\d{3,5})\s+(\d{3,5}) at i: <<i, position after the first group, position of the
\* second, position after the match>>, << >> if none.
PairAt(s, i) ==
    LET Third(e, d, f) == IF f > 0 THEN <<i, e, d, f>> ELSE << >>
        Second(e, d) == Third(e, d, UpTo5At(s, d))
        Spaced(e) == Second(e, Ws1(s, e))
    IN Spaced(Run3To5At(s, i))

\* re.findall(r"(\d{3,5})\s+(\d{3,5})", s) from position i on, as pairs of prices.
RECURSIVE FindAllPairs(_, _)
FindAllPairs(s, i) ==
    LET Rest(m) ==
            IF m = << >> THEN << >>
            ELSE << <<Rupees(WholeOf(SubSeq(s, m[1], m[2] - 1))),
                      Rupees(WholeOf(SubSeq(s, m[3], m[4] - 1)))>> >> \o FindAllPairs(s, m[4])
    IN Rest(Leftmost({<<j, PairAt(s, j)>> : j \in i..Len(s)}, << >>))

\* \b(\d{3,5})\b at position i: <<i, position after the number>>, << >> if none.
StandaloneAt(s, i) ==
    LET Bounded(e) ==
            IF e > 0 /\ At(s, i - 1) \notin WordChar /\ At(s, e) \notin WordChar
            THEN <<i, e>> ELSE << >>
    IN Bounded(Run3To5At(s, i))

\* re.findall(r"\b(\d{3,5})\b", s) from position i on.
RECURSIVE FindAllStandalone(_, _)
FindAllStandalone(s, i) ==
    LET Rest(m) ==
            IF m = << >> THEN << >>
            ELSE <<Rupees(WholeOf(SubSeq(s, m[1], m[2] - 1)))>> \o FindAllStandalone(s, m[2])
    IN Rest(Leftmost({<<j, StandaloneAt(s, j)>> : j \in i..Len(s)}, << >>))

SeqMin(seq) == Min({seq[k] : k \in 1..Len(seq)})
SeqMax(seq) == Max({seq[k] : k \in 1..Len(seq)})
MinOf(a, b) == IF a <= b THEN a ELSE b
MaxOf(a, b) == IF a >= b THEN a ELSE b

(***************************************************************************)
(* _extract_prices: the cascade of textual rules.  A rule takes the text   *)
(* and the two slots p = [current_price, target_price] and gives the slots *)
(* after it; the rules run in the order of the source.                     *)
(***************************************************************************)

NoPrices == [current_price |-> 0, target_price |-> 0]

\* if current_price == 0.0: current_price = v
FillCurrent(p, v) == IF p.current_price = 0 THEN [p EXCEPT !.current_price = v] ELSE p

\* FillTarget without its test: the slot is assigned whatever it holds.
FillTargetAlways(p, v) == [p EXCEPT !.target_price = v]

\* if target_price == 0.0: target_price = v
FillTarget(p, v) == IF p.target_price = 0 THEN [p EXCEPT !.target_price = v] ELSE p

\* if current_price == 0.0 or target_price == 0.0
SlotOpen(p) == p.current_price = 0 \/ p.target_price = 0

\* The match v of a rule with one captured number (-1: no match) put in the
\* target slot, in the current slot.
SetTarget(p, v) == IF v >= 0 THEN [p EXCEPT !.target_price = v] ELSE p
SetCurrent(p, v) == IF v >= 0 THEN [p EXCEPT !.current_price = v] ELSE p

\* A target rule with one captured number, tried while the target slot is 0.0.
TargetRule(text, p, P(_, _)) ==
    IF p.target_price = 0 THEN SetTarget(p, SearchNum(text, P)) ELSE p

\* A current-price rule with one captured number, tried while the slot is 0.0.
CurrentRule(text, p, P(_, _)) ==
    IF p.current_price = 0 THEN SetCurrent(p, SearchNum(text, P)) ELSE p

\* "target of Rs N": the first rule, it assigns whenever it matches.
RuleTargetOf(text, p) == SetTarget(p, SearchNum(text, TargetOfAt))

RuleTargetColon(text, p) == TargetRule(text, p, TargetColonAt)
RuleTp(text, p) == TargetRule(text, p, TpAt)
RulePriceTargetOf(text, p) == TargetRule(text, p, PriceTargetOfAt)

\* "Current Price: Rs N": the first current-price rule, it assigns whenever it matches.
RuleRecoPrice(text, p) == SetCurrent(p, SearchNum(text, RecoPriceAt))

RuleAtRs(text, p) == CurrentRule(text, p, AtRsAt)
RuleCmp(text, p) == CurrentRule(text, p, CmpAt)

\* The pair m of a two-number rule (<< >>: no match): min to current, max to target.
FillMinMax(p, m) ==
    IF m # << >> THEN FillTarget(FillCurrent(p, MinOf(m[1], m[2])), MaxOf(m[1], m[2])) ELSE p

\* "Rs N1 - N2": min to current, max to target.
RuleRange(text, p) == IF SlotOpen(p) THEN FillMinMax(p, SearchRange(text)) ELSE p

\* The prices of the "Rs N" rule, already filtered: two or more give both slots, one
\* gives the target.
FillFromList(p, prices) ==
    IF Len(prices) >= 2 THEN FillTarget(FillCurrent(p, SeqMin(prices)), SeqMax(prices))
    ELSE IF Len(prices) = 1 THEN FillTarget(p, prices[1])
    ELSE p

\* Every "Rs N" of the text, inside the window 10 to 50000.
RuleAnyRs(text, p) ==
    IF SlotOpen(p) THEN FillFromList(p, SelectSeq(FindAllRs(text, 1), InWindow)) ELSE p

\* The pair m of the "buy at N1, target N2" rule, assigned as written.
FillAsWritten(p, m) == IF m # << >> THEN FillTarget(FillCurrent(p, m[1]), m[2]) ELSE p

\* "buy at N1, target N2": assigned as written.
RuleBuyTarget(text, p) == IF SlotOpen(p) THEN FillAsWritten(p, SearchBuyTarget(text)) ELSE p

\* The pair m of the bracket rule: used when both numbers are inside the window.
FillBracket(p, m) == IF m # << >> /\ InWindow(m[1]) /\ InWindow(m[2]) THEN FillMinMax(p, m) ELSE p

\* "(N1/N2)": both inside the window, min to current, max to target.
RuleBracket(text, p) == IF SlotOpen(p) THEN FillBracket(p, SearchBracket(text)) ELSE p

\* 50 <= price1, price2 <= 50000 and abs(price2 - price1) / price1 < 0.5
PairAccepted(pair) ==
    /\ Rupees(50) <= pair[1] /\ pair[1] <= Rupees(50000)
    /\ Rupees(50) <= pair[2] /\ pair[2] <= Rupees(50000)
    /\ 2 * (MaxOf(pair[1], pair[2]) - MinOf(pair[1], pair[2])) < pair[1]

\* The first accepted pair, if any, fills the slots.
FillFirstPair(p, pairs) == IF pairs # << >> THEN FillMinMax(p, pairs[1]) ELSE p

\* Two numbers of 3 to 5 digits side by side: the first accepted pair.
RuleNumberPair(text, p) ==
    IF SlotOpen(p) THEN FillFirstPair(p, SelectSeq(FindAllPairs(text, 1), PairAccepted)) ELSE p

\* 100 <= price <= 20000
Realistic(price) == Rupees(100) <= price /\ price <= Rupees(20000)

\* At least two realistic prices: min to current, max to target.
FillRealistic(p, realistic_prices) ==
    IF Len(realistic_prices) >= 2
    THEN FillTarget(FillCurrent(p, SeqMin(realistic_prices)), SeqMax(realistic_prices)) ELSE p

\* Bare numbers of 3 to 5 digits: at least two realistic ones.
RuleStandalone(text, p) ==
    IF SlotOpen(p) THEN FillRealistic(p, SelectSeq(FindAllStandalone(text, 1), Realistic)) ELSE p

\* The rules in the order of the source.
PriceRuleNames ==
    <<"TargetOf", "TargetColon", "Tp", "PriceTargetOf", "RecoPrice", "AtRs", "Cmp",
      "Range", "AnyRs", "BuyTarget", "Bracket", "NumberPair", "Standalone">>

ApplyPriceRule(rule, text, p) ==
    CASE rule = "TargetOf" -> RuleTargetOf(text, p)
      [] rule = "TargetColon" -> RuleTargetColon(text, p)
      [] rule = "Tp" -> RuleTp(text, p)
      [] rule = "PriceTargetOf" -> RulePriceTargetOf(text, p)
      [] rule = "RecoPrice" -> RuleRecoPrice(text, p)
      [] rule = "AtRs" -> RuleAtRs(text, p)
      [] rule = "Cmp" -> RuleCmp(text, p)
      [] rule = "Range" -> RuleRange(text, p)
      [] rule = "AnyRs" -> RuleAnyRs(text, p)
      [] rule = "BuyTarget" -> RuleBuyTarget(text, p)
      [] rule = "Bracket" -> RuleBracket(text, p)
      [] rule = "NumberPair" -> RuleNumberPair(text, p)
      [] rule = "Standalone" -> RuleStandalone(text, p)

\* The slots after the first k rules.
RECURSIVE PricesAfter(_, _)
PricesAfter(text, k) ==
    IF k = 0 THEN NoPrices ELSE ApplyPriceRule(PriceRuleNames[k], text, PricesAfter(text, k - 1))

extract_prices(text) == PricesAfter(text, Len(PriceRuleNames))

(***************************************************************************)
(* Names made of capitalised words                                         *)
(***************************************************************************)

\* Of a set of pairs <<position, match>>, the pair at the least position among those
\* whose match is not none; <<0, none>> when there is no such pair.
LeftmostAt(ms, none) ==
    LET hits == {m \in ms : m[2] # none}
    IN IF hits = {} THEN <<0, none>> ELSE CHOOSE m \in hits : \A n \in hits : m[1] <= n[1]

\* [A-Z][a-z]+ at position i: the position after the word, 0 if none.
CapWordEnd(s, i) ==
    IF At(s, i) \in UpperLetter /\ At(s, i + 1) \in LowerLetter
    THEN SkipSet(s, i + 1, LowerLetter) ELSE 0

\* (?:w1|w2|...)\b at position d: the position after the word, 0 if none.
WordOfAt(s, d, words) ==
    LET After(hit) == IF hit = {} THEN 0 ELSE d + Len(CHOOSE w \in hit : TRUE)
    IN After({w \in words : LitAt(s, d, w) /\ At(s, d + Len(w)) \notin WordChar})

\* (?:\s+[A-Z][a-z]+)*\s+(?:suffixes)\b from position e, the end of a capitalised
\* word: <<position after the last word before the suffix, position after the
\* suffix>>, << >> if none.  The star is greedy: a further word is tried first.
RECURSIVE Chain(_, _, _)
Chain(s, e, suffixes) ==
    LET Suffix(f) == IF f > 0 THEN <<e, f>> ELSE << >>
        Else(d, more) == IF more # << >> THEN more ELSE Suffix(WordOfAt(s, d, suffixes))
        After(d) == Else(d, Chain(s, CapWordEnd(s, d), suffixes))
    IN IF e = 0 THEN << >> ELSE After(Ws1(s, e))

\* \b[A-Z][a-z]+(?:\s+[A-Z][a-z]+)*\s+(?:suffixes)\b at position i.
ChainAt(s, i, suffixes) ==
    IF Boundary(s, i) THEN Chain(s, CapWordEnd(s, i), suffixes) ELSE << >>

(***************************************************************************)
(* Broker names                                                            *)
(***************************************************************************)

is_likely_broker_name(name) ==
    IF Len(name) < 3 \/ Len(name) > 30 THEN FALSE
    ELSE \E i \in 1..Len(name) :
            /\ Boundary(name, i)
            /\ WordOfAt(Lower(name), i,
                        {"securities", "capital", "wealth", "financial", "research", "advisors",
                         "ltd", "limited", "pvt", "private"}) > 0

known_brokers ==
    <<"Motilal Oswal", "Prabhudas Lilladher", "Anand Rathi", "HDFC Securities", "ICICI Direct",
      "Sharekhan", "Kotak Securities", "Axis Securities", "Edelweiss", "YES Securities",
      "IIFL Securities", "Emkay Global", "Angel Broking", "Zerodha", "5paisa", "Upstox",
      "Religare Securities", "India Infoline", "SMC Global", "Geojit", "JM Financial",
      "LKP Securities", "Nirmal Bang", "Centrum Broking", "SBI Securities", "BOI AXA Investment",
      "IDBI Capital", "Ventura Securities", "Choice Broking", "Master Capital",
      "MoneyControl Research", "Equitymaster", "Dalal Street Investment">>

BrokerSuffixes == {"Securities", "Capital", "Broking", "Investment", "Financial", "Research"}

\* ([A-Za-z\s&\.]+?)(?:\s|$|;|:) at position p: the length of the lazy group, 0 if none.
LazyNameLen(s, p) ==
    First({k \in 1..(Len(s) - p + 1) :
              /\ AllIn(SubSeq(s, p, p + k - 1), BrokerTailClass)
              /\ (p + k > Len(s) \/ At(s, p + k) \in Space \cup {";", ":"})})

\* \s+(...) at position a: <<start, length>> of the group, << >> if none.  \s+ is
\* greedy and gives white space back to the group only when it must.
SpacedNameAt(s, a) ==
    LET Group(n) == IF n = 0 THEN << >> ELSE <<a + n, LazyNameLen(s, a + n)>>
        Last(ok) == IF ok = {} THEN 0 ELSE Max(ok)
    IN Group(Last({n \in 1..(SkipWs(s, a) - a) : LazyNameLen(s, a + n) > 0}))

\* Research by\s+(...) at position i: <<start, length>> of the group, << >> if none.
ResearchByAt(s, i) == IF LitAt(s, i, "Research by") THEN SpacedNameAt(s, i + 11) ELSE << >>

\* re.search(r"Research by\s+([A-Za-z\s&\.]+?)(?:\s|$|;|:)", text): <<group 1>>, << >> if none.
SearchResearchBy(text) ==
    LET Value(m) == IF m = << >> THEN << >> ELSE <<SubSeq(text, m[1], m[1] + m[2] - 1)>>
    IN Value(Leftmost({<<i, ResearchByAt(text, i)>> : i \in 1..Len(text)}, << >>))

\* re.search(r":\s*([A-Za-z\s&\.]+?)(?:\s*$)", text): <<group 1 stripped>>, << >> if none.
SearchAfterColon(text) ==
    LET Value(i) == IF i = 0 THEN << >> ELSE <<Strip(From(text, i + 1))>>
    IN Value(First({i \in 1..(Len(text) - 1) :
                       At(text, i) = ":" /\ AllIn(From(text, i + 1), BrokerTailClass)}))

\* The known brokers found in the text, in the order of the list.
KnownBrokersIn(text) == SelectSeq(known_brokers, LAMBDA b : Contains(Lower(text), Lower(b)))

\* re.findall of the first broker pattern, group 1, from position i on.
RECURSIVE FindBrokerChains(_, _)
FindBrokerChains(s, i) ==
    LET Rest(m) ==
            IF m[2] = << >> THEN << >>
            ELSE <<SubSeq(s, m[1], m[2][1] - 1)>> \o FindBrokerChains(s, m[2][2])
    IN Rest(LeftmostAt({<<j, ChainAt(s, j, BrokerSuffixes)>> : j \in i..Len(s)}, << >>))

\* \s+(?:suffixes)\b at position e, the end of group 1: <<e, position after the match>>.
BrokerSuffixAt(s, e) ==
    LET Suffix(f) == IF f > 0 THEN <<e, f>> ELSE << >>
    IN Suffix(WordOfAt(s, Ws1(s, e), BrokerSuffixes))

\* \b([A-Z][a-z]+)\s+(?:suffixes)\b at i: <<position after group, position after match>>.
OneWordBrokerAt(s, i) ==
    IF Boundary(s, i) THEN BrokerSuffixAt(s, CapWordEnd(s, i)) ELSE << >>

\* [A-Z]{2,5} at position i, the run of capitals ending there: the position after it.
AcronymEnd(s, i) ==
    LET Take(e) == IF e - i >= 2 /\ e - i <= 5 THEN e ELSE 0
    IN Take(SkipSet(s, i, UpperLetter))

\* \b([A-Z]{2,5})\s+(?:suffixes)\b at i.
AcronymBrokerAt(s, i) ==
    IF Boundary(s, i) THEN BrokerSuffixAt(s, AcronymEnd(s, i)) ELSE << >>

\* The second or the third broker pattern at position j.
GroupAt(s, j, kind) == IF kind = "one" THEN OneWordBrokerAt(s, j) ELSE AcronymBrokerAt(s, j)

\* re.findall of a pattern given by its matcher, group 1, from position i on.
RECURSIVE FindGroups(_, _, _)
FindGroups(s, i, kind) ==
    LET Rest(m) ==
            IF m[2] = << >> THEN << >>
            ELSE <<SubSeq(s, m[1], m[2][1] - 1)>> \o FindGroups(s, m[2][2], kind)
    IN Rest(LeftmostAt({<<j, GroupAt(s, j, kind)>> : j \in i..Len(s)}, << >>))

\* The matches of the three broker patterns, pattern by pattern, that the loop accepts.
PatternBrokers(text) ==
    SelectSeq(FindBrokerChains(text, 1) \o FindGroups(text, 1, "one") \o FindGroups(text, 1, "acronym"),
              LAMBDA m : Len(m) > 2 /\ Lower(m) \notin {"the", "and", "ltd", "limited"})

\* The "Research by NAME" rule of _extract_broker_name as the source has it, m being
\* the match: the lazy group stops at the first white space.
research_by_broker(m) == Strip(m[1])

extract_broker_name(text) ==
    LET ByPattern(ms) == IF ms # << >> THEN ms[1] \o " Securities" ELSE ""
        ByKnown(ks) == IF ks # << >> THEN ks[1] ELSE ByPattern(PatternBrokers(text))
        ByColon(c) ==
            IF c # << >> /\ is_likely_broker_name(c[1]) THEN c[1] ELSE ByKnown(KnownBrokersIn(text))
        ByResearch(m) == IF m # << >> THEN research_by_broker(m) ELSE ByColon(SearchAfterColon(text))
    IN ByResearch(SearchResearchBy(text))

(***************************************************************************)
(* Markup.  An element of a page is a record of what the source reads from *)
(* it: text is its get_text(), links its <a> descendants (href, text),     *)
(* bolds the texts of its b/strong/h1..h6 descendants, elems its           *)
(* descendants as the structural price rules see them, around the texts of *)
(* its parent and of the parent's div/span/td children, and quotes what    *)
(* the three remote price lookups would find for its company.              *)
(***************************************************************************)

CompanySuffixes ==
    {"Ltd", "Limited", "Industries", "Bank", "Corp", "Corporation", "Financial", "Services",
     "Motors", "Steel", "Power", "Energy", "Pharma", "Technologies"}

KnownCompanies ==
    {"Reliance", "TCS", "Infosys", "HDFC", "ICICI", "SBI", "Wipro", "HCL", "Bharti", "Maruti",
     "Asian Paints", "ITC", "Hindustan Unilever", "Bajaj", "Mahindra", "Tata"}

\* re.findall of the "Name ... Ltd" pattern from position i on.
RECURSIVE FindCompanyChains(_, _)
FindCompanyChains(s, i) ==
    LET Rest(m) ==
            IF m[2] = << >> THEN << >>
            ELSE <<SubSeq(s, m[1], m[2][2] - 1)>> \o FindCompanyChains(s, m[2][2])
    IN Rest(LeftmostAt({<<j, ChainAt(s, j, CompanySuffixes)>> : j \in i..Len(s)}, << >>))

\* \b(?:known companies)\b at position j: the position after the name, 0 if none.
KnownCompanyAt(s, j) == IF Boundary(s, j) THEN WordOfAt(s, j, KnownCompanies) ELSE 0

\* re.findall of the known-company pattern from position i on.
RECURSIVE FindKnownCompanies(_, _)
FindKnownCompanies(s, i) ==
    LET Rest(m) ==
            IF m[2] = 0 THEN << >>
            ELSE <<SubSeq(s, m[1], m[2] - 1)>> \o FindKnownCompanies(s, m[2])
    IN Rest(LeftmostAt({<<j, KnownCompanyAt(s, j)>> : j \in i..Len(s)}, 0))

\* The texts of seq mapped through f.
MapSeq(seq, f(_)) == [k \in 1..Len(seq) |-> f(seq[k])]

\* The texts of the links whose href holds one of the path parts, get_text(strip=True),
\* longer than 2.
LinkTexts(links, parts) ==
    MapSeq(SelectSeq(links, LAMBDA l : (\E q \in parts : Contains(l.href, q)) /\ Len(Strip(l.text)) > 2),
           LAMBDA l : Strip(l.text))

\* The candidates of _extract_company_name in the order it tries them.
CompanyCandidates(el) ==
    LinkTexts(el.links, {"/stockpricequote/"})
    \o LinkTexts(el.links, {"/stocks/", "/company/"})
    \o MapSeq(el.bolds, Strip)
    \o FindCompanyChains(el.text, 1)
    \o FindKnownCompanies(el.text, 1)

\* The first of the names, "" when there is none.
FirstOr(names) == IF names = << >> THEN "" ELSE names[1]

extract_company_name(el) ==
    FirstOr(SelectSeq(MapSeq(CompanyCandidates(el), clean_company_name), is_valid_company_name))

(***************************************************************************)
(* _extract_prices_from_html: the structural price rules.  A descendant of *)
(* the container is a record: tag, the attributes data_price, title, class *)
(* (its classes joined by spaces), type, name and value ("" when absent),  *)
(* text (its string), siblings (the texts of its next and previous         *)
(* siblings in the order the source lists them), markup and parent_markup  *)
(* (str() of the element and of its parent).  The slots carry a flag       *)
(* raised: an exception ends the whole function with the slots as they are.*)
(***************************************************************************)

Element ==
    [tag |-> "span", data_price |-> "", title |-> "", class |-> "", type |-> "", name |-> "",
     value |-> "", text |-> "", siblings |-> << >>, markup |-> "", parent_markup |-> ""]

NoHtmlPrices == [current_price |-> 0, target_price |-> 0, raised |-> FALSE]

\* if target_price == 0.0: target_price = price / elif current_price == 0.0: current_price = price
FillByOrder(st, price) ==
    IF st.target_price = 0 THEN [st EXCEPT !.target_price = price]
    ELSE IF st.current_price = 0 THEN [st EXCEPT !.current_price = price]
    ELSE st

\* s.isdigit() for a string of ASCII characters.
IsDigits(s) == s # "" /\ AllIn(s, Digit)

\* s without the characters of set drop (str.replace(c, "")).
RECURSIVE Without(_, _)
Without(s, drop) ==
    IF Len(s) <= 1 THEN (IF s \in drop THEN "" ELSE s)
    ELSE Without(SubSeq(s, 1, Len(s) \div 2), drop) \o Without(SubSeq(s, Len(s) \div 2 + 1, Len(s)), drop)

\* float(s) raises ValueError: more than one decimal point among the digits.
FloatRaises(s) == Cardinality({k \in 1..Len(s) : At(s, k) = "."}) > 1

\* Rs\s*(NUM) at position i: the position of the number, 0 if none.
RsPlainNumAt(s, i) == DigitAt(s, SkipWs(s, LitEndI(s, i, "rs")))

\* re.findall(NUM, s) from position i on.
RECURSIVE FindAllNums(_, _)
FindAllNums(s, i) ==
    LET Rest(b) == IF b = 0 THEN << >> ELSE <<NumAt(s, b)>> \o FindAllNums(s, NumEnd(s, b))
    IN Rest(First({j \in i..Len(s) : At(s, j) \in Digit}))

\* re.match(r"^NUM$", s)
IsNumber(s) == NumEnd(s, 1) = Len(s) + 1

\* " ".join(texts)
RECURSIVE JoinSp(_)
JoinSp(texts) ==
    IF texts = << >> THEN ""
    ELSE IF Len(texts) = 1 THEN texts[1]
    ELSE texts[1] \o " " \o JoinSp(Tail(texts))

\* A price of a table cell or of a numeric element, placed by the words around it.
FillByContext(st, price, context) ==
    IF Contains(context, "target") \/ Contains(context, "tp")
    THEN (IF st.target_price = 0 THEN [st EXCEPT !.target_price = price] ELSE st)
    ELSE IF Contains(context, "current") \/ Contains(context, "cmp") \/ Contains(context, "price")
    THEN (IF st.current_price = 0 THEN [st EXCEPT !.current_price = price] ELSE st)
    ELSE FillByOrder(st, price)

\* if 10 <= price <= 50000, then the slots by order
FillInWindow(st, price) == IF InWindow(price) THEN FillByOrder(st, price) ELSE st

\* The data-price attribute.
HtmlDataPrice(e, st) ==
    IF e.data_price # "" /\ IsDigits(Without(e.data_price, {"."}))
    THEN IF FloatRaises(e.data_price) THEN [st EXCEPT !.raised = TRUE]
         ELSE FillInWindow(st, ToFloat(e.data_price))
    ELSE st

\* The title attribute: the slot is assigned whatever it holds.
HtmlTitle(e, st) ==
    LET Assign(price) ==
            IF ~ InWindow(price) THEN st
            ELSE IF ContainsI(e.title, "target") THEN [st EXCEPT !.target_price = price]
            ELSE IF ContainsI(e.title, "current") \/ ContainsI(e.title, "cmp")
                 THEN [st EXCEPT !.current_price = price]
            ELSE st
    IN Assign(SearchNum(e.title, RsPlainNumAt))

\* One number of an element with a price-like class.
ClassNumber(e, st, price) ==
    IF ~ InWindow(price) THEN st
    ELSE IF ContainsI(e.class, "target") \/ ContainsI(Strip(e.text), "target")
    THEN (IF st.target_price = 0 THEN [st EXCEPT !.target_price = price] ELSE st)
    ELSE IF ContainsI(e.class, "current") \/ ContainsI(Strip(e.text), "current") \/ ContainsI(e.class, "cmp")
    THEN (IF st.current_price = 0 THEN [st EXCEPT !.current_price = price] ELSE st)
    ELSE FillByOrder(st, price)

RECURSIVE ClassNumbers(_, _, _)
ClassNumbers(e, st, prices) ==
    IF prices = << >> THEN st ELSE ClassNumbers(e, ClassNumber(e, st, Head(prices)), Tail(prices))

\* Elements whose class suggests a price.
HtmlClass(e, st) ==
    IF \E w \in {"price", "target", "current", "cmp"} : ContainsI(e.class, w)
    THEN ClassNumbers(e, st, FindAllNums(Strip(e.text), 1)) ELSE st

\* The string of the element holds a digit (string=re.compile(r"\d+")).
HasDigit(s) == \E k \in 1..Len(s) : At(s, k) \in Digit

\* The first three texts of seq.
FirstThree(seq) == SubSeq(seq, 1, IF Len(seq) < 3 THEN Len(seq) ELSE 3)

\* The stripped text t of an element when it is a bare number inside the window,
\* placed by the words of context.
FillBareNumber(st, t, context) ==
    IF IsNumber(t) /\ InWindow(ToFloat(t)) THEN FillByContext(st, ToFloat(t), context) ELSE st

\* Table cells holding a bare number.
HtmlCell(e, st) ==
    IF e.tag \in {"td", "th"} /\ HasDigit(e.text)
    THEN FillBareNumber(st, Strip(e.text), Lower(JoinSp(FirstThree(e.siblings))))
    ELSE st

\* span, div, strong and b elements holding a bare number.
HtmlNumeric(e, st) ==
    IF e.tag \in {"span", "div", "strong", "b"} /\ HasDigit(e.text)
    THEN FillBareNumber(st, Strip(e.text), Lower(e.markup) \o " " \o Lower(e.parent_markup))
    ELSE st

\* Hidden form fields named after a price; a value float() refuses is passed over.
HtmlHidden(e, st) ==
    LET Place(price) ==
            IF ~ InWindow(price) THEN st
            ELSE IF ContainsI(e.name, "target")
            THEN (IF st.target_price = 0 THEN [st EXCEPT !.target_price = price] ELSE st)
            ELSE IF ContainsI(e.name, "current") \/ ContainsI(e.name, "cmp")
            THEN (IF st.current_price = 0 THEN [st EXCEPT !.current_price = price] ELSE st)
            ELSE st
    IN IF /\ e.tag = "input" /\ e.type = "hidden"
          /\ (ContainsI(e.name, "price") \/ ContainsI(e.name, "target"))
          /\ IsDigits(Without(e.value, {".", ","}))
          /\ ~ FloatRaises(e.value)
       THEN Place(ToFloat(e.value)) ELSE st

\* The structural rules in the order of the source.
HtmlRuleNames == <<"DataPrice", "Title", "Class", "Cell", "Numeric", "Hidden">>

HtmlRuleOn(rule, e, st) ==
    CASE rule = "DataPrice" -> HtmlDataPrice(e, st)
      [] rule = "Title" -> HtmlTitle(e, st)
      [] rule = "Class" -> HtmlClass(e, st)
      [] rule = "Cell" -> HtmlCell(e, st)
      [] rule = "Numeric" -> HtmlNumeric(e, st)
      [] rule = "Hidden" -> HtmlHidden(e, st)

\* One rule over the descendants in document order; nothing runs once raised.
RECURSIVE ApplyHtmlRule(_, _, _)
ApplyHtmlRule(rule, elems, st) ==
    IF elems = << >> \/ st.raised THEN st
    ELSE ApplyHtmlRule(rule, Tail(elems), HtmlRuleOn(rule, Head(elems), st))

\* The slots after the first k structural rules.
RECURSIVE HtmlPricesAfter(_, _)
HtmlPricesAfter(elems, k) ==
    IF k = 0 THEN NoHtmlPrices
    ELSE ApplyHtmlRule(HtmlRuleNames[k], elems, HtmlPricesAfter(elems, k - 1))

\* return current_price, target_price
Slots(st) == [current_price |-> st.current_price, target_price |-> st.target_price]

extract_prices_from_html(elems) == Slots(HtmlPricesAfter(elems, Len(HtmlRuleNames)))

(***************************************************************************)
(* Records.  An extractor gives << >> for None and <<record>> otherwise.   *)
(* reporting_date (datetime.now()) is left out: nothing reads it.          *)
(***************************************************************************)

DefaultBroker == "MoneyControl Research"

BrokerRecommendation(broker, company, verdict, target, current) ==
    [broker_name |-> broker, company_name |-> company, recommendation |-> verdict,
     target_price |-> target, current_price |-> current]

\* broker_name = _extract_broker_name(text) or the default
OrDefault(broker_name) == IF broker_name = "" THEN DefaultBroker ELSE broker_name
BrokerOrDefault(text) == OrDefault(extract_broker_name(text))

(***************************************************************************)
(* _fetch_current_price.  quotes holds, for each of the three remote       *)
(* lookups in the order they are tried, the prices its replies carry (none *)
(* when every request fails); a lookup answers the first price inside the  *)
(* window 10 to 50000, and 0.0 otherwise.                                  *)
(***************************************************************************)

\* The first of the prices, 0.0 when there is none.
FirstOr0(ok) == IF ok = << >> THEN 0 ELSE ok[1]

FetchPriceFrom(replies) == FirstOr0(SelectSeq(replies, InWindow))

\* The first of the three lookups that answers a price above 0.0.
fetch_current_price(quotes) ==
    LET Third(c) == IF c > 0 THEN c ELSE 0
        Second(b) == IF b > 0 THEN b ELSE Third(FetchPriceFrom(quotes[3]))
        One(a) == IF a > 0 THEN a ELSE Second(FetchPriceFrom(quotes[2]))
    IN One(FetchPriceFrom(quotes[1]))

(***************************************************************************)
(* _extract_recommendation_from_container                                  *)
(***************************************************************************)

\* What _extract_prices finds in each of the texts.
PricesOfTexts(texts) == [k \in 1..Len(texts) |-> extract_prices(texts[k])]

\* A slot still 0.0 takes the price x found for it when that is above 0.0.
TakeFound(p, x) ==
    [current_price |-> IF p.current_price = 0 /\ x.current_price > 0
                       THEN x.current_price ELSE p.current_price,
     target_price |-> IF p.target_price = 0 /\ x.target_price > 0
                      THEN x.target_price ELSE p.target_price]

\* The loop over the container, its parent and the parent's children, xs being the
\* prices found in their texts: each slot takes the first price found for it, and the
\* loop ends once both are known.
RECURSIVE SearchAround(_, _)
SearchAround(xs, p) ==
    LET Go(q) == IF q.current_price > 0 /\ q.target_price > 0 THEN q ELSE SearchAround(Tail(xs), q)
    IN IF xs = << >> THEN p ELSE Go(TakeFound(p, Head(xs)))

\* if current_price == 0.0 or target_price == 0.0: the loop over the texts around
WithAround(h, xs) == IF h.current_price = 0 \/ h.target_price = 0 THEN SearchAround(xs, h) ELSE h

\* if current_price == 0.0 and target_price == 0.0: the prices x of the container's text
WithText(a, x) == IF a.current_price = 0 /\ a.target_price = 0 THEN x ELSE a

\* The prices of a container before any remote lookup: markup, then the texts around
\* it, then its own text.
ContainerPrices(el) ==
    LET Read(xs) == WithText(WithAround(extract_prices_from_html(el.elems), xs), xs[1])
    IN Read(PricesOfTexts(<<el.text>> \o el.around))

\* The container's record with extracted, its current price before any remote lookup,
\* and lookups, the number of calls of _fetch_current_price: the lookup runs when the
\* current price is still 0.0 (the company name is never empty there).
ContainerOutcome(el) ==
    LET Made(company_name, p) ==
            IF company_name = "" \/ ~ is_valid_company_name(company_name) THEN << >>
            ELSE <<[rec |-> BrokerRecommendation(
                              BrokerOrDefault(el.text), company_name,
                              extract_recommendation(el.text), p.target_price,
                              IF p.current_price = 0 THEN fetch_current_price(el.quotes)
                              ELSE p.current_price),
                    extracted |-> p.current_price,
                    lookups |-> IF p.current_price = 0 THEN 1 ELSE 0]>>
    IN Made(extract_company_name(el), ContainerPrices(el))

\* The record alone: << >> for None.
RecOf(outcome) == IF outcome = << >> THEN << >> ELSE <<outcome[1].rec>>

extract_recommendation_from_container(el) == RecOf(ContainerOutcome(el))

(***************************************************************************)
(* _extract_recommendation_from_context                                    *)
(***************************************************************************)

extract_recommendation_from_context(company_name, context_text) ==
    LET Made(p) ==
            <<BrokerRecommendation(
                BrokerOrDefault(context_text), clean_company_name(company_name),
                extract_recommendation(context_text), p.target_price, p.current_price)>>
    IN IF ~ is_valid_company_name(company_name) THEN << >> ELSE Made(extract_prices(context_text))

(***************************************************************************)
(* _extract_from_text                                                      *)
(***************************************************************************)

NameClass == Letter \cup Space \cup {"&"}

\* (BUY|SELL|HOLD) at position d, whatever the case: the position after it, 0 if none.
VerdictEnd(s, d) == WordEndI(s, d, {"buy", "sell", "hold"})

\* ([A-Za-z\s&]+?):\s*(BUY|SELL|HOLD) at i: <<group 1, group 2, position after>>.
ColonVerdictAt(s, i) ==
    LET Match(e, d, f) == IF f > 0 THEN <<SubSeq(s, i, e - 1), SubSeq(s, d, f - 1), f>> ELSE << >>
        Verdict(e, d) == Match(e, d, VerdictEnd(s, d))
        Name(e) == IF e > i /\ At(s, e) = ":" THEN Verdict(e, SkipWs(s, e + 1)) ELSE << >>
    IN Name(SkipSet(s, i, NameClass))

\* (BUY|SELL|HOLD)\s+([A-Za-z\s&]+) at i.  \s+ takes all the white space unless the
\* group would then be empty, when it leaves the group its last character.
VerdictNameAt(s, i) ==
    LET Match(a, w, e) ==
            IF e > w THEN <<SubSeq(s, i, a - 1), SubSeq(s, w, e - 1), e>>
            ELSE IF w - a >= 2 THEN <<SubSeq(s, i, a - 1), SubSeq(s, w - 1, w - 1), w>>
            ELSE << >>
        Spaced(a, w) == IF w = 0 THEN << >> ELSE Match(a, w, SkipSet(s, w, NameClass))
        Word(a) == Spaced(a, Ws1(s, a))
    IN Word(VerdictEnd(s, i))

\* ([A-Za-z\s&]+?)\s+-\s*(BUY|SELL|HOLD) at i: the lazy group ends where the white
\* space before the dash begins, and holds one character at least.
NameDashVerdictAt(s, i) ==
    LET Match(j, d, f) == IF f > 0 THEN <<SubSeq(s, i, j - 1), SubSeq(s, d, f - 1), f>> ELSE << >>
        Verdict(j, d) == Match(j, d, VerdictEnd(s, d))
        Dash(e, j) == IF j > 0 THEN Verdict(j, SkipWs(s, e + 1)) ELSE << >>
        Name(e) ==
            IF e > i /\ At(s, e) = "-"
            THEN Dash(e, First({j \in (i + 1)..(e - 1) : AllIn(SubSeq(s, j, e - 1), Space)}))
            ELSE << >>
    IN Name(SkipSet(s, i, NameClass))

TextPatternAt(kind, s, i) ==
    CASE kind = 1 -> ColonVerdictAt(s, i)
      [] kind = 2 -> VerdictNameAt(s, i)
      [] kind = 3 -> NameDashVerdictAt(s, i)

\* re.findall of text pattern kind from position i on, as pairs <<group 1, group 2>>.
RECURSIVE FindAllText(_, _, _)
FindAllText(kind, s, i) ==
    LET Rest(m) ==
            IF m = << >> THEN << >> ELSE << <<m[1], m[2]>> >> \o FindAllText(kind, s, m[3])
    IN Rest(Leftmost({<<j, TextPatternAt(kind, s, j)>> : j \in i..Len(s)}, << >>))

\* str.upper() of a verdict word is among BUY, SELL, HOLD.
IsVerdictWord(w) == Lower(w) \in {"buy", "sell", "hold"}

\* str.upper() of a word the patterns matched as a verdict.
UpperVerdict(w) ==
    LET Upper(l) == IF l = "buy" THEN "BUY" ELSE IF l = "sell" THEN "SELL" ELSE "HOLD"
    IN Upper(Lower(w))

\* The company name and the verdict a match stands for.
MatchRead(m) ==
    IF IsVerdictWord(m[2]) THEN <<clean_company_name(m[1]), UpperVerdict(m[2])>>
    ELSE <<clean_company_name(m[2]), UpperVerdict(m[1])>>

\* The matches of the three patterns, pattern by pattern, each read.
TextMatches(text) ==
    LET Read(ms) == [k \in 1..Len(ms) |-> MatchRead(ms[k])]
    IN Read(FindAllText(1, text, 1) \o FindAllText(2, text, 1) \o FindAllText(3, text, 1))

\* The first match whose company name is valid makes the record.
FirstValid(ok) ==
    IF ok = << >> THEN << >>
    ELSE <<BrokerRecommendation(DefaultBroker, ok[1][1], ok[1][2], 0, 0)>>

extract_from_text(text) ==
    FirstValid(SelectSeq(TextMatches(text), LAMBDA c : is_valid_company_name(c[1])))

(***************************************************************************)
(* _extract_from_json_data.  A decoded JSON object is a function from its  *)
(* keys to values [t, s]: t is "str", "num", "bool" or "null" and s is the *)
(* string itself, the number as JSON writes it, or "true"/"false".         *)
(***************************************************************************)

JStr(s) == [t |-> "str", s |-> s]
JNum(s) == [t |-> "num", s |-> s]
JBool(s) == [t |-> "bool", s |-> s]
JNull == [t |-> "null", s |-> ""]

\* bool(v)
Truthy(v) ==
    CASE v.t = "str" -> v.s # ""
      [] v.t = "num" -> \E i \in 1..Len(v.s) : At(v.s, i) \in Digit \ {"0"}
      [] v.t = "bool" -> v.s = "true"
      [] OTHER -> FALSE

\* str(v)
PyStr(v) ==
    CASE v.t = "bool" -> (IF v.s = "true" THEN "True" ELSE "False")
      [] v.t = "null" -> "None"
      [] OTHER -> v.s

\* t is a decimal numeral without sign: digits with at most one point among them.
IsDecimal(t) ==
    /\ \E i \in 1..Len(t) : At(t, i) \in Digit
    /\ AllIn(t, Digit \cup {"."})
    /\ ~ FloatRaises(t)

\* t without its sign.
Unsigned(t) == IF At(t, 1) \in {"-", "+"} THEN From(t, 2) ELSE t

\* float(v) raises (a string that is no decimal numeral; exponents, inf and nan are not
\* among the strings the pages hold).
JsonFloatRaises(v) ==
    CASE v.t = "str" -> ~ IsDecimal(Unsigned(Strip(v.s)))
      [] v.t = "null" -> TRUE
      [] OTHER -> FALSE

\* float(t) in hundredths for a decimal numeral t with or without sign, sign kept.
SignedFloat(t) == IF At(t, 1) = "-" THEN 0 - ToFloat(Unsigned(t)) ELSE ToFloat(Unsigned(t))

\* float(v) in hundredths, sign kept.
JsonFloat(v) ==
    CASE v.t = "bool" -> (IF v.s = "true" THEN Rupees(1) ELSE 0)
      [] OTHER -> SignedFloat(Strip(v.s))

\* The keys of the list that data holds with a truthy value.
PresentKeys(data, keys) == SelectSeq(keys, LAMBDA k : k \in DOMAIN data /\ Truthy(data[k]))

name_keys == <<"name", "company", "symbol", "companyName", "stockName">>
price_keys == <<"price", "currentPrice", "lastPrice", "ltp">>
target_keys == <<"targetPrice", "target", "priceTarget", "tp">>
rec_keys == <<"recommendation", "call", "action">>

\* The first present key whose value float() accepts gives the price; 0.0 if none.
JsonPrice(data, keys) ==
    LET Of(ok) == IF ok = << >> THEN 0 ELSE JsonFloat(data[ok[1]])
    IN Of(SelectSeq(PresentKeys(data, keys), LAMBDA k : ~ JsonFloatRaises(data[k])))

JsonCompany(data) ==
    LET Of(ok) == IF ok = << >> THEN "" ELSE Strip(PyStr(data[ok[1]]))
    IN Of(PresentKeys(data, name_keys))

JsonVerdict(data) ==
    LET Of(ok) == IF ok = << >> THEN "BUY" ELSE extract_recommendation(PyStr(data[ok[1]]))
    IN Of(PresentKeys(data, rec_keys))

extract_from_json_data(data) ==
    LET Made(company_name) ==
            IF company_name # "" /\ is_valid_company_name(company_name)
            THEN <<BrokerRecommendation(DefaultBroker, company_name, JsonVerdict(data),
                                        JsonPrice(data, target_keys), JsonPrice(data, price_keys))>>
            ELSE << >>
    IN Made(JsonCompany(data))

(***************************************************************************)
(* _parse_html_content.  A page is what the parser's selections find in    *)
(* it: json, the strings matched as embedded JSON objects, each [ok, data] *)
(* (ok: json.loads succeeds); containers (table_rows); links (stock_links, *)
(* each [text, context], context being the text of the ancestor the parser *)
(* climbs to); texts (recommendation_texts).  What an extractor makes of   *)
(* one item is a candidate [origin, rec, extracted, lookups]: the record,  *)
(* its current price once markup and text have been read, and the number   *)
(* of calls of _fetch_current_price made for it; << >> when it makes none. *)
(***************************************************************************)

\* The candidate of an extractor that never calls _fetch_current_price: the current
\* price of its record is the price it extracted.
Unlooked(origin, recs) ==
    IF recs = << >> THEN << >>
    ELSE <<[origin |-> origin, rec |-> recs[1], extracted |-> recs[1].current_price, lookups |-> 0]>>

\* The candidate of a container from the outcome of its extraction.
Looked(outcome) ==
    IF outcome = << >> THEN << >>
    ELSE <<[origin |-> "container", rec |-> outcome[1].rec, extracted |-> outcome[1].extracted,
            lookups |-> outcome[1].lookups]>>

\* any(word in text.upper() for word in ["BUY", "SELL", "HOLD"])
HasVerdictWord(text) == \E i \in 1..Len(text) : VerdictEnd(text, i) > 0

JsonCandidate(frag) ==
    IF ~ frag.ok THEN << >> ELSE Unlooked("json", extract_from_json_data(frag.data))

ContainerCandidate(el) ==
    IF ~ HasVerdictWord(el.text) THEN << >> ELSE Looked(ContainerOutcome(el))

LinkCandidate(link) ==
    LET Read(link_text) ==
            IF Len(link_text) > 2 /\ is_valid_company_name(link_text) /\ HasVerdictWord(link.context)
            THEN Unlooked("link", extract_recommendation_from_context(link_text, link.context))
            ELSE << >>
    IN Read(Strip(link.text))

TextCandidate(text) == Unlooked("text", extract_from_text(text))

\* key = (rec.company_name.lower(), rec.broker_name.lower())
Key(rec) == <<Lower(rec.company_name), Lower(rec.broker_name)>>

\* The parser's lists before any item is read.
NoParse == [recommendations |-> << >>, processed_recommendations |-> {}, log |-> << >>]

\* recommendations.extend(...): embedded JSON records join the list unconditionally and
\* leave the set of processed keys alone.
Extend(ps, cand) ==
    IF cand = << >> THEN ps
    ELSE [ps EXCEPT !.recommendations = Append(@, cand[1].rec), !.log = Append(@, cand[1])]

\* A container's, link's or text's record joins the list unless its key was processed
\* (a container's record also needs a company name).
Admit(ps, cand) ==
    LET New(key) ==
            IF key \in ps.processed_recommendations
            THEN [ps EXCEPT !.log = Append(@, cand[1])]
            ELSE [ps EXCEPT !.recommendations = Append(@, cand[1].rec),
                            !.processed_recommendations = @ \cup {key},
                            !.log = Append(@, cand[1])]
    IN IF cand = << >> THEN ps
       ELSE IF cand[1].origin = "container" /\ cand[1].rec.company_name = ""
       THEN [ps EXCEPT !.log = Append(@, cand[1])]
       ELSE New(Key(cand[1].rec))

\* _remove_duplicates returning its argument as it is.
remove_duplicates_keep_all(recommendations) == recommendations

\* seen = set(); a record is kept when its key is not in seen yet.
RECURSIVE remove_duplicates(_)
remove_duplicates(recommendations) ==
    LET Seen(front, key) == \E k \in 1..Len(front) : Key(front[k]) = key
        Keep(front, rec) == IF Seen(front, Key(rec)) THEN front ELSE Append(front, rec)
    IN IF recommendations = << >> THEN << >>
       ELSE Keep(remove_duplicates(SubSeq(recommendations, 1, Len(recommendations) - 1)),
                 recommendations[Len(recommendations)])

\* recommendation_texts[:20]
TextLimit == 20

StageAfter(stage) ==
    CASE stage = "json" -> "containers"
      [] stage = "containers" -> "links"
      [] stage = "links" -> "texts"
      [] stage = "texts" -> "dedup"

\* The items of a stage, the texts without their limit.
ItemsUncapped(pg, stage) == pg[stage]

\* The items a stage of the parser goes through.
Items(pg, stage) ==
    CASE stage = "json" -> pg.json
      [] stage = "containers" -> pg.containers
      [] stage = "links" -> pg.links
      [] stage = "texts" -> SubSeq(pg.texts, 1, MinOf(Len(pg.texts), TextLimit))

\* Where the parser stands when it is about to read item i of a stage: a finished loop
\* gives way to the next one, and the loop over the texts is entered only while the
\* list of recommendations is empty.
RECURSIVE Settle(_, _, _, _)
Settle(pg, stage, i, recs) ==
    IF stage = "dedup" THEN <<"dedup", 1>>
    ELSE IF stage = "texts" /\ i = 1 /\ recs # << >> THEN <<"dedup", 1>>
    ELSE IF i <= Len(Items(pg, stage)) THEN <<stage, i>>
    ELSE Settle(pg, StageAfter(stage), 1, recs)

(***************************************************************************)
(* The pages.  A page names its items by their place in the pools below,   *)
(* and Candidates holds what the extractors make of every pool item.       *)
(***************************************************************************)

Container == [text |-> "", links |-> << >>, bolds |-> << >>, elems |-> << >>, around |-> << >>,
              quotes |-> << << >>, << >>, << >> >>]

JsonPool ==
    << [ok |-> TRUE, data |-> ("name" :> JStr("Reliance Industries") @@ "price" :> JNum("-5"))],
       [ok |-> TRUE, data |-> ("company" :> JStr("Tata Motors") @@ "price" :> JStr("2500")
                               @@ "target" :> JNum("3000.5") @@ "call" :> JStr("sell"))],
       [ok |-> FALSE, data |-> << >>] >>

\* "~" stands for a dash outside ASCII: a character of no class of any pattern.
ContainerPool ==
    << [Container EXCEPT
           !.text = "Buy Reliance Industries; target of Rs 3000, CMP Rs 2500 ~ Research by Motilal Oswal"],
       [Container EXCEPT !.text = "Sell Tata Motors",
                         !.quotes = << <<Rupees(5)>>, <<Rupees(120)>>, << >> >>],
       [Container EXCEPT !.text = "Buy Tata Motors",
                         !.elems = <<[Element EXCEPT !.data_price = "850"]>>,
                         !.around = <<"Tata Motors", "CMP Rs 800">>] >>

LinkPool ==
    << [text |-> "Buy IT", context |-> "Buy IT now, target of Rs 150"],
       [text |-> " Tata Motors ", context |-> "Tata Motors sell target of Rs 900"] >>

TextPool == <<"Infosys: BUY", "Wipro - target met">>

\* What the extractors make of the items of each pool.
JsonCandidates == [k \in DOMAIN JsonPool |-> JsonCandidate(JsonPool[k])]
ContainerCandidates == [k \in DOMAIN ContainerPool |-> ContainerCandidate(ContainerPool[k])]
LinkCandidates == [k \in DOMAIN LinkPool |-> LinkCandidate(LinkPool[k])]
TextCandidates == [k \in DOMAIN TextPool |-> TextCandidate(TextPool[k])]

\* The four tables by the name of the stage that reads them.
Candidates ==
    [json |-> JsonCandidates, containers |-> ContainerCandidates, links |-> LinkCandidates,
     texts |-> TextCandidates]

\* What the extractor of a stage makes of item i of the page, read from the tables.
CandidateAt(cands, pg, stage, i) == cands[stage][pg[stage][i]]

\* The parser's lists once the candidate of a stage has been dealt with.
Join(stage, ps, cand) == IF stage = "json" THEN Extend(ps, cand) ELSE Admit(ps, cand)

\* The parser's lists after item i of a stage has been read.
StageStep(cands, pg, stage, i, ps) == Join(stage, ps, CandidateAt(cands, pg, stage, i))

\* The parser's lists when it has gone from item i of a stage to the end of the loops.
RECURSIVE ParseFrom(_, _, _, _, _)
ParseFrom(cands, pg, stage, i, ps) ==
    LET Go(after, at) == ParseFrom(cands, pg, at[1], at[2], after)
        On(after) == Go(after, Settle(pg, stage, i + 1, after.recommendations))
    IN IF stage = "dedup" THEN ps ELSE On(StageStep(cands, pg, stage, i, ps))

\* The loop and the item the parser starts at.
StartAt(pg) == Settle(pg, "json", 1, << >>)

\* The parser's lists when the loops have ended.
ParseAll(cands, pg) ==
    LET Start(at) == ParseFrom(cands, pg, at[1], at[2], NoParse)
    IN Start(StartAt(pg))

\* The list the parser returns, the extractors' results being read from the tables.
ParseWith(cands, pg) == remove_duplicates(ParseAll(cands, pg).recommendations)

parse_html_content(pg) == ParseWith(Candidates, pg)

(***************************************************************************)
(* State.  Nine specifications share the variables; each moves its own and  *)
(* leaves the others at rest.                                              *)
(*   SpecPrices  _extract_prices, one textual rule per step                *)
(*   SpecHtml    _extract_prices_from_html, one structural rule per step   *)
(*   SpecParse   _parse_html_content, one item of the page per step        *)
(*   SpecNames   _extract_recommendation and _clean_company_name           *)
(*   SpecLookup  _fetch_current_price, one sub-strategy per step           *)
(*   Spec        a handler invocation with the acquisition cascade         *)
(*   SpecRequests  two handler invocations running concurrently            *)
(*   SpecReparse   _parse_html_content called again on the same page       *)
(*   SpecParseFaults  _parse_html_content with extractions that raise      *)
(***************************************************************************)

(***************************************************************************)
(* handlers.py: requests, responses and the aggregations.                  *)
(* An event is [route, method, headers]: route names the handler the       *)
(* gateway invokes, and headers is None or a mapping, held as the sequence *)
(* of its <<key, value>> pairs in insertion order.                         *)
(***************************************************************************)

\* API_KEY = os.environ.get("API_KEY", "dev-api-key-123")
API_KEY == "dev-api-key-123"

NoHeaders == [null |-> TRUE, pairs |-> << >>]
Headers(pairs) == [null |-> FALSE, pairs |-> pairs]

\* headers = event.get("headers", {}) or {}
HeadersOf(event) == IF event.headers.null THEN << >> ELSE event.headers.pairs

\* The first header whose key is x-api-key, whatever the case, decides.
KeyMatches(headers, hits) == IF hits = {} THEN FALSE ELSE headers[Min(hits)][2] = API_KEY

FirstApiKey(headers) ==
    KeyMatches(headers, {k \in 1..Len(headers) : Lower(headers[k][1]) = "x-api-key"})

\* validate_api_key looking only for the presence of the header.
validate_api_key_present(event) ==
    \E k \in 1..Len(HeadersOf(event)) : Lower(HeadersOf(event)[k][1]) = "x-api-key"

validate_api_key(event) == FirstApiKey(HeadersOf(event))

\* The CORS headers are the same on every response and are left out.  A body that is
\* a dict or a dataclass goes through json.dumps.
create_response(status_code, body) ==
    [statusCode |-> status_code, body |-> [json |-> body]]

\* create_response when isinstance(body, str): the body is sent as it is.
create_text_response(status_code, body) ==
    [statusCode |-> status_code, body |-> [text |-> body]]

ErrorResponse(error) == [error |-> error]
MessageResponse(message) == [message |-> message]
HealthResponse == [status |-> "healthy", service |-> "broker-recommendations"]

\* json.dumps(..., default=str) writes an object it cannot serialise, such as a
\* dataclass inside a dict, as the string str(obj).
DefaultStr(obj) == [str |-> obj]

filter_recommendations(recs) ==
    SelectSeq(recs, LAMBDA rec : /\ rec.company_name # ""
                                 /\ rec.recommendation # ""
                                 /\ Len(rec.company_name) > 2
                                 /\ rec.recommendation \in {"BUY", "SELL", "HOLD"})

\* The members of seq, each once, in the order of their first appearance.
RECURSIVE Distinct(_)
Distinct(seq) ==
    LET Keep(front, x) == IF \E k \in 1..Len(front) : front[k] = x THEN front ELSE Append(front, x)
    IN IF seq = << >> THEN << >>
       ELSE Keep(Distinct(SubSeq(seq, 1, Len(seq) - 1)), seq[Len(seq)])

RECURSIVE SumSeq(_)
SumSeq(seq) == IF seq = << >> THEN 0 ELSE Head(seq) + SumSeq(Tail(seq))

\* Every target price of the records whose field holds name, 0.0 included.
TargetsOfAll(recs, field, name) ==
    LET Picked(rs) == [k \in 1..Len(rs) |-> rs[k].target_price]
    IN Picked(SelectSeq(recs, LAMBDA rec : rec[field] = name))

\* The target prices above 0.0 of the records whose field holds name, in order.
TargetsOf(recs, field, name) ==
    LET Picked(rs) == [k \in 1..Len(rs) |-> rs[k].target_price]
    IN Picked(SelectSeq(recs, LAMBDA rec : rec.target_price > 0 /\ rec[field] = name))

\* The names of a field among the records with a target price above 0.0.
NamesOf(recs, field) ==
    LET Picked(rs) == Distinct([k \in 1..Len(rs) |-> rs[k][field]])
    IN Picked(SelectSeq(recs, LAMBDA rec : rec.target_price > 0))

\* A number is kept as the fraction [sum, count] until it is rounded.
\* a > b for two such fractions
Above(a, b) == a.sum * b.count > b.sum * a.count

\* sorted(..., key=lambda x: x[1], reverse=True): descending, equal keys keeping
\* their order.
RECURSIVE SortedDesc(_)
SortedDesc(seq) ==
    LET Place(sorted, x, before) ==
            SubSeq(sorted, 1, before) \o <<x>> \o SubSeq(sorted, before + 1, Len(sorted))
        Insert(sorted, x) ==
            Place(sorted, x, Cardinality({k \in 1..Len(sorted) : ~ Above(x[2], sorted[k][2])}))
    IN IF seq = << >> THEN << >>
       ELSE Insert(SortedDesc(SubSeq(seq, 1, Len(seq) - 1)), seq[Len(seq)])

\* limit: int = 10
TopLimit == 10

\* seq[:limit]
Limit(seq, limit) == SubSeq(seq, 1, MinOf(Len(seq), limit))

\* sum(targets) / len(targets)
Mean(targets) == [sum |-> SumSeq(targets), count |-> Len(targets)]

\* max(targets)
Best(targets) == [sum |-> SeqMax(targets), count |-> 1]

get_top_companies(recs) ==
    LET Averages(names) ==
            [k \in 1..Len(names) |-> <<names[k], Mean(TargetsOf(recs, "company_name", names[k]))>>]
    IN Limit(SortedDesc(Averages(NamesOf(recs, "company_name"))), TopLimit)

get_top_brokers(recs) ==
    LET Bests(names) ==
            [k \in 1..Len(names) |-> <<names[k], Best(TargetsOf(recs, "broker_name", names[k]))>>]
    IN Limit(SortedDesc(Bests(NamesOf(recs, "broker_name"))), TopLimit)

\* round(x, 2) of a fraction of hundredths that is not negative: the nearest
\* hundredth, a tie going to the even one (no tie arises from the prices of the pools).
Round2(x) ==
    LET Nearest(q, r) ==
            IF 2 * r < x.count THEN q
            ELSE IF 2 * r > x.count THEN q + 1
            ELSE IF q % 2 = 0 THEN q ELSE q + 1
    IN Nearest(x.sum \div x.count, x.sum % x.count)

TopCompany(rank, company_name, avg_target_price) ==
    [rank |-> rank, company_name |-> company_name, avg_target_price |-> avg_target_price]

TopBroker(rank, broker_name, best_target_price) ==
    [rank |-> rank, broker_name |-> broker_name, best_target_price |-> best_target_price]

\* The body of the recommendations handler (timestamp left out: nothing reads it).
RecommendationsBody(filtered) ==
    [recommendations |-> filtered, total_recommendations |-> Len(filtered)]

TopCompaniesBody(filtered) ==
    LET Ranked(top) ==
            [i \in 1..Len(top) |-> DefaultStr(TopCompany(i, top[i][1], Round2(top[i][2])))]
    IN [top_companies |-> Ranked(get_top_companies(filtered)),
        based_on_recommendations |-> Len(filtered)]

TopBrokersBody(filtered) ==
    LET Ranked(top) ==
            [i \in 1..Len(top) |-> DefaultStr(TopBroker(i, top[i][1], Round2(top[i][2])))]
    IN [top_brokers |-> Ranked(get_top_brokers(filtered)),
        based_on_recommendations |-> Len(filtered)]

\* avg_target = sum(targets) / len(targets) if targets else 0
AverageTarget(targets) == IF targets = << >> THEN 0 ELSE Round2(Mean(targets))

StatsBody(filtered) ==
    LET Targets(rs) == [k \in 1..Len(rs) |-> rs[k].target_price]
    IN [total_recommendations |-> Len(filtered),
        buy_recommendations |-> Len(SelectSeq(filtered, LAMBDA rec : rec.recommendation = "BUY")),
        sell_recommendations |-> Len(SelectSeq(filtered, LAMBDA rec : rec.recommendation = "SELL")),
        average_target_price |->
            AverageTarget(Targets(SelectSeq(filtered, LAMBDA rec : rec.target_price > 0)))]

\* The body a crawling handler makes of the filtered records.
BodyOf(route, filtered) ==
    CASE route = "recommendations" -> RecommendationsBody(filtered)
      [] route = "top_companies" -> TopCompaniesBody(filtered)
      [] route = "top_brokers" -> TopBrokersBody(filtered)
      [] route = "stats" -> StatsBody(filtered)

Routes == {"recommendations", "top_companies", "top_brokers", "health", "cleanup", "stats"}

\* The handlers that construct a crawler.
CrawlRoutes == {"recommendations", "top_companies", "top_brokers", "stats"}

\* The handlers that answer an OPTIONS request before anything else.
OptionsRoutes == {"recommendations", "top_companies", "top_brokers"}

\* The handler answers 200 with an empty body at once.
AnswersOptions(event) == event.route \in OptionsRoutes /\ event.method = "OPTIONS"

(***************************************************************************)
(* get_recommendations: the try blocks.  A site is a place of the source   *)
(* where an operation may raise; Enclosing names the try blocks with an    *)
(* "except Exception" around it, innermost first.                          *)
(*   setup    the imports and options of the browser strategy              *)
(*   chrome   webdriver.Chrome(...)                                        *)
(*   script   the execute_script calls that follow it                      *)
(*   visit    driver.get and what follows for one URL                      *)
(*   quit     driver.quit() in the finally clause                          *)
(*   session  requests.Session() of a profile                              *)
(*   get      session.get of one URL                                       *)
(***************************************************************************)

\* No try block around any site.
EnclosingNone(site) == << >>

Enclosing(site) ==
    CASE site = "setup" -> <<"selenium", "cascade">>
      [] site = "chrome" -> <<"driver", "selenium", "cascade">>
      [] site = "script" -> <<"driver", "selenium", "cascade">>
      [] site = "visit" -> <<"url", "driver", "selenium", "cascade">>
      [] site = "quit" -> <<"selenium", "cascade">>
      [] site = "session" -> <<"profile", "cascade">>
      [] site = "get" -> <<"http_url", "profile", "cascade">>

\* Where an exception raised at a site lands: the innermost try block around it, or
\* the caller of get_recommendations when there is none.
Landing(blocks) == IF blocks = << >> THEN "caller" ELSE blocks[1]

\* Every exception of the cascade reaches the caller of get_recommendations.
UnwindToCaller(site) == "caller"

Unwind(site) == Landing(Enclosing(site))

(***************************************************************************)
(* The handlers' try blocks.  The sites of a handler are "crawler" (the    *)
(* constructor MoneyControlCrawler(), which opens a requests.Session) and  *)
(* "crawl" (the call of get_recommendations).  health_check_handler has no *)
(* try block, and no site: it constructs no crawler and does not read the  *)
(* event.                                                                  *)
(***************************************************************************)

\* No try block in any handler.
HandlerEnclosingNone(route, site) == << >>

\* try: ... except Exception as e: return create_response(500, ErrorResponse(error=str(e)))
HandlerEnclosing(route, site) == IF route = "health" THEN << >> ELSE <<"handler">>

\* The finally clause with its call left out.
QuitsDriverNever(driver_made) == FALSE

\* finally: if driver: driver.quit()
QuitsDriver(driver_made) == driver_made

(***************************************************************************)
(* _fetch_current_price and its three sub-strategies, request by request.  *)
(***************************************************************************)

\* What a remote call of a sub-strategy ends in.  kind is "error" (session.get raises:
\* no connection, a timeout), "status" (a status other than 200), "unparsable" (the
\* body is read and response.json(), the price field or float() raises) or "price"
\* (the body carries the price).
Reply(kind, price) == [kind |-> kind, price |-> price]

\* No try block around the remote calls.
LookupEnclosingNone(site) == << >>

\* The try blocks around a remote call (site "get") and around the reading of its
\* reply (site "read"), innermost first: the one inside the loop over the requests, the
\* one around the body of the sub-strategy, the one of _fetch_current_price.
LookupEnclosing(site) ==
    CASE site = "get" -> <<"request", "sub_strategy", "lookup">>
      [] site = "read" -> <<"request", "sub_strategy", "lookup">>

LookupUnwind(site) == Landing(LookupEnclosing(site))

\* One sub-strategy run over the replies to its requests: the price it returns and
\* where it ends, "return" or the try block an exception leaves it for.
RECURSIVE SubStrategy(_)
SubStrategy(replies) ==
    LET Raise(site) ==
            IF LookupUnwind(site) = "request" THEN SubStrategy(Tail(replies))
            ELSE IF LookupUnwind(site) = "sub_strategy" THEN [price |-> 0, landing |-> "return"]
            ELSE [price |-> 0, landing |-> LookupUnwind(site)]
        One(r) ==
            IF r.kind = "error" THEN Raise("get")
            ELSE IF r.kind = "unparsable" THEN Raise("read")
            ELSE IF r.kind = "price" /\ InWindow(r.price) THEN [price |-> r.price, landing |-> "return"]
            ELSE SubStrategy(Tail(replies))
    IN IF replies = << >> THEN [price |-> 0, landing |-> "return"] ELSE One(Head(replies))

\* urls_to_try of the browser strategy
BrowserUrls == 4

\* if len(recommendations) >= 10: break
EnoughRecords == 10

\* strategies and urls_to_try of the direct-HTTP strategy
HttpProfiles == 2
HttpUrls == 3

VARIABLES
    text,           \* _extract_prices: the text given
    rule,           \* _extract_prices: how many rules have run
    prices,         \* _extract_prices: current_price and target_price
    elems,          \* _extract_prices_from_html: the container's descendants
    html_rule,      \* _extract_prices_from_html: how many rules have run
    html_prices,    \* _extract_prices_from_html: the two slots and whether float() raised
    candidates,     \* what the extractors make of the items a page may hold
    served,         \* what _parse_html_content makes of each page the site serves
    page,           \* _parse_html_content: the page given
    stage,          \* _parse_html_content: the loop the parser is in
    idx,            \* _parse_html_content: the item of the loop it reads next
    recommendations,            \* _parse_html_content: the list being built
    processed_recommendations,  \* _parse_html_content: the keys of the records admitted
    log,            \* every candidate the extractors have made, in the order made
    unique_recs,    \* _parse_html_content: the list returned
    request,        \* the event the handler is invoked with
    response,       \* the response the handler returns
    pc,             \* where the invocation stands
    driver,         \* the browser: none, open, closed
    url,            \* the URL the running strategy tries next
    profile,        \* the header profile of the direct-HTTP strategy
    found,          \* the browser strategy's list of recommendations
    browser_result, \* what the browser strategy returned
    http_result,    \* what the direct-HTTP strategy returned
    returned,       \* what get_recommendations returned
    crawl,          \* get_recommendations: none, running, returned, raised
    crawlers,       \* the crawlers constructed
    network_calls,  \* the page loads, refreshes, requests and price lookups started
    failures,       \* the strategies, or the items of the page, in which an operation has raised
    http_requests,  \* the page requests the direct-HTTP strategy has made
    http_reply,     \* how its latest page request ended
    call_text,      \* the text extract_recommendation is given
    verdict,        \* what extract_recommendation returned
    name_parts,     \* the raw company name clean_company_name is given, in parts
    cleaned,        \* what clean_company_name returned
    applied,        \* the functions applied to call_text and name_parts
    quotes,         \* the replies each price sub-strategy gets to its remote calls
    lookup_pc,      \* the sub-strategy _fetch_current_price runs next
    lookup_calls,   \* the sub-strategies it has run
    lookup_price,   \* the price it returned
    lookup_end,     \* how it ended: none, returned, raised
    calls,          \* concurrent invocations: where each stands and the objects it holds
    heap,           \* the crawlers, sessions, lists and sets constructed so far
    parses          \* what successive calls of _parse_html_content on one page returned

priceVars == <<text, rule, prices>>
htmlVars == <<elems, html_rule, html_prices>>
parseVars == <<candidates, served, page, stage, idx, recommendations, processed_recommendations, log, unique_recs>>
httpVars == <<http_requests, http_reply>>
crawlVars == <<driver, url, profile, found, browser_result, http_result, returned, crawl, crawlers,
               network_calls, failures, httpVars>>
handlerVars == <<request, response, pc, crawlVars>>
nameVars == <<call_text, verdict, name_parts, cleaned, applied>>
lookupVars == <<quotes, lookup_pc, lookup_calls, lookup_price, lookup_end>>
requestVars == <<calls, heap>>
unitVars == <<nameVars, lookupVars, requestVars, parses>>
vars == <<priceVars, htmlVars, parseVars, handlerVars, unitVars>>

NoPage == [json |-> << >>, containers |-> << >>, links |-> << >>, texts |-> << >>]

PricesAtRest == text = "" /\ rule = 0 /\ prices = NoPrices
HtmlAtRest == elems = << >> /\ html_rule = 0 /\ html_prices = NoHtmlPrices
ParseIdle ==
    /\ page = NoPage /\ stage = "done" /\ idx = 1
    /\ recommendations = << >> /\ processed_recommendations = {} /\ log = << >>
    /\ unique_recs = << >>
ParseAtRest == candidates = << >> /\ served = << >> /\ ParseIdle

NoRequest == [route |-> "", method |-> "", headers |-> NoHeaders]
NoResponse == [statusCode |-> 0, body |-> [text |-> ""]]
CrawlIdle ==
    /\ response = NoResponse
    /\ driver = "none" /\ url = 0 /\ profile = 0
    /\ found = << >> /\ browser_result = << >> /\ http_result = << >> /\ returned = << >>
    /\ crawl = "none" /\ crawlers = 0 /\ network_calls = 0 /\ failures = {}
    /\ http_requests = 0 /\ http_reply = "none"
HandlersAtRest == request = NoRequest /\ pc = "done" /\ CrawlIdle

NoNameParts == [prefix |-> <<"", "">>, core |-> <<"", "">>, tail |-> ""]
NamesAtRest ==
    /\ call_text = "" /\ verdict = "" /\ name_parts = NoNameParts /\ cleaned = ""
    /\ applied = {"extract_recommendation", "clean_company_name"}
LookupAtRest ==
    /\ quotes = << >> /\ lookup_pc = "done" /\ lookup_calls = << >>
    /\ lookup_price = 0 /\ lookup_end = "none"
NoHeap == [crawlers |-> << >>, sessions |-> << >>, lists |-> << >>, sets |-> << >>]
RequestsAtRest == calls = << >> /\ heap = NoHeap /\ parses = << >>
UnitsAtRest == NamesAtRest /\ LookupAtRest /\ RequestsAtRest

\* The sequences of at most n members of pool.
SeqsUpTo(pool, n) == UNION {[1..k -> pool] : k \in 0..n}

\* The members of a sequence of strings, one after another.
RECURSIVE Concat(_)
Concat(parts) == IF parts = << >> THEN "" ELSE Head(parts) \o Concat(Tail(parts))

(***************************************************************************)
(* SpecPrices                                                              *)
(***************************************************************************)

MaxFragments == 2

\* Phrases a recommendation text is made of.
PriceFragments ==
    {"target of Rs 3000, ", "Target Price: Rs 2,800 ", "TP: Rs 2700; ", "Current Price: Rs 100 ",
     "at Rs 200 ", "CMP Rs 2500 ", "Rs 150 - 180 ", "buy at 300, target 360 ", "(450/520) ",
     "1200 1300 ", "25000 26000 ", "700, "}

PriceTexts == {Concat(parts) : parts \in SeqsUpTo(PriceFragments, MaxFragments)}

InitPrices ==
    /\ text \in PriceTexts
    /\ rule = 0
    /\ prices = NoPrices
    /\ HtmlAtRest
    /\ ParseAtRest
    /\ HandlersAtRest
    /\ UnitsAtRest

\* The next rule of _extract_prices runs.
PriceRuleStep ==
    /\ rule < Len(PriceRuleNames)
    /\ rule' = rule + 1
    /\ prices' = ApplyPriceRule(PriceRuleNames[rule + 1], text, prices)
    /\ UNCHANGED <<text, htmlVars, parseVars, handlerVars, unitVars>>

NextPrices == PriceRuleStep

SpecPrices == InitPrices /\ [][NextPrices]_vars

\* C6: in _extract_prices, once a rule has set the current-price slot or the
\* target-price slot to a value other than zero, no later rule changes that slot, so
\* the value returned for a slot is the one its first matching rule assigned.
C6_FilledSlotKept ==
    [][/\ prices.current_price # 0 => prices'.current_price = prices.current_price
       /\ prices.target_price # 0 => prices'.target_price = prices.target_price]_vars

\* A rule has run that, on its own, reads another target out of the text than the one
\* an earlier rule had put in the slot, and the slot holds the earlier one.
C6_Witness ==
    /\ rule >= 2
    /\ prices = PricesAfter(text, rule)
    /\ PricesAfter(text, rule - 1).target_price # 0
    /\ ApplyPriceRule(PriceRuleNames[rule], text, NoPrices).target_price
          \notin {0, PricesAfter(text, rule - 1).target_price}
    /\ prices.target_price = PricesAfter(text, rule - 1).target_price

(***************************************************************************)
(* SpecHtml                                                                *)
(***************************************************************************)

MaxElements == 2

\* Descendants a container may hold.
HtmlElements ==
    {[Element EXCEPT !.data_price = "100"],
     [Element EXCEPT !.data_price = "1.2.3"],
     [Element EXCEPT !.title = "Target Rs 200"],
     [Element EXCEPT !.title = "CMP: Rs 1,500.25"],
     [Element EXCEPT !.class = "target-price", !.text = "Rs 320"],
     [Element EXCEPT !.tag = "td", !.text = " 450 ", !.siblings = <<"Target">>],
     [Element EXCEPT !.text = "700", !.markup = "<span>700</span>", !.parent_markup = "<div>Current</div>"],
     [Element EXCEPT !.tag = "input", !.type = "hidden", !.name = "targetPrice", !.value = "1,800"]}

InitHtml ==
    /\ elems \in SeqsUpTo(HtmlElements, MaxElements)
    /\ html_rule = 0
    /\ html_prices = NoHtmlPrices
    /\ PricesAtRest
    /\ ParseAtRest
    /\ HandlersAtRest
    /\ UnitsAtRest

\* The next rule of _extract_prices_from_html runs over the descendants.
HtmlRuleStep ==
    /\ html_rule < Len(HtmlRuleNames)
    /\ html_rule' = html_rule + 1
    /\ html_prices' = ApplyHtmlRule(HtmlRuleNames[html_rule + 1], elems, html_prices)
    /\ UNCHANGED <<elems, priceVars, parseVars, handlerVars, unitVars>>

NextHtml == HtmlRuleStep

SpecHtml == InitHtml /\ [][NextHtml]_vars

\* C7: in _extract_prices_from_html, a slot an earlier structural rule has filled is
\* never overwritten by a later structural rule.
C7_FilledSlotKept ==
    [][/\ html_prices.current_price # 0 => html_prices'.current_price = html_prices.current_price
       /\ html_prices.target_price # 0 => html_prices'.target_price = html_prices.target_price]_vars

(***************************************************************************)
(* SpecParse                                                               *)
(***************************************************************************)

MaxJson == 1
MaxContainers == 2
MaxLinks == 1
MaxTexts == 1

ShortPages ==
    [json : SeqsUpTo(DOMAIN JsonPool, MaxJson),
     containers : SeqsUpTo(DOMAIN ContainerPool, MaxContainers),
     links : SeqsUpTo(DOMAIN LinkPool, MaxLinks),
     texts : SeqsUpTo(DOMAIN TextPool, MaxTexts)]

\* Pages of nothing but texts, one more than the parser reads: all the second text of
\* the pool but one, which is the first, the last the parser reads or the one after it.
LongPages ==
    {[NoPage EXCEPT !.texts = [k \in 1..(TextLimit + 1) |-> IF k = j THEN 1 ELSE 2]] :
        j \in {1, TextLimit, TextLimit + 1}}

Pages == ShortPages \cup LongPages

InitParse ==
    /\ candidates = Candidates
    /\ served = << >>
    /\ page \in Pages
    /\ stage = StartAt(page)[1]
    /\ idx = StartAt(page)[2]
    /\ recommendations = << >>
    /\ processed_recommendations = {}
    /\ log = << >>
    /\ unique_recs = << >>
    /\ PricesAtRest
    /\ HtmlAtRest
    /\ HandlersAtRest
    /\ UnitsAtRest

\* The parser's three lists as one record.
Parsed ==
    [recommendations |-> recommendations, processed_recommendations |-> processed_recommendations,
     log |-> log]

\* One turn of the loop of the given stage.
ParseItem(which) ==
    LET Moves(after, at) ==
            /\ recommendations' = after.recommendations
            /\ processed_recommendations' = after.processed_recommendations
            /\ log' = after.log
            /\ stage' = at[1]
            /\ idx' = at[2]
        Reads(after) == Moves(after, Settle(page, stage, idx + 1, after.recommendations))
    IN /\ stage = which
       /\ Reads(StageStep(candidates, page, stage, idx, Parsed))
       /\ UNCHANGED <<candidates, served, page, unique_recs, priceVars, htmlVars, handlerVars, unitVars>>

\* An embedded JSON object is decoded and its record appended.
ParseJson == ParseItem("json")

\* A container is read.
ParseContainer == ParseItem("containers")

\* A stock link is read with the text around it.
ParseLink == ParseItem("links")

\* A text with a recommendation keyword is read (only while nothing else was found).
ParseText == ParseItem("texts")

\* The parser returns _remove_duplicates(recommendations).
RemoveDuplicates ==
    /\ stage = "dedup"
    /\ unique_recs' = remove_duplicates(recommendations)
    /\ stage' = "done"
    /\ UNCHANGED <<candidates, served, page, idx, recommendations, processed_recommendations, log,
                   priceVars, htmlVars, handlerVars, unitVars>>

NextParse == ParseJson \/ ParseContainer \/ ParseLink \/ ParseText \/ RemoveDuplicates

SpecParse == InitParse /\ [][NextParse]_vars

\* Where the first candidate with the given key stands in the log.
FirstMade(key) == Min({k \in 1..Len(log) : Key(log[k].rec) = key})

\* C3: the list _parse_html_content returns holds no two records with the same
\* (lower(company_name), lower(broker_name)), and the record kept for a key is the
\* first one made for it in processing order (embedded JSON, containers, quote links,
\* text fallback), whatever the later candidates hold.
C3_FirstKept ==
    stage = "done" =>
       /\ \A i, j \in 1..Len(unique_recs) : i < j => Key(unique_recs[i]) # Key(unique_recs[j])
       /\ \A i \in 1..Len(unique_recs) : unique_recs[i] = log[FirstMade(Key(unique_recs[i]))].rec

\* The parser has returned, and two candidates of one key differed.
C3_Witness ==
    /\ stage = "done"
    /\ unique_recs # << >>
    /\ \E i, j \in 1..Len(log) :
          /\ i < j
          /\ log[i].rec.company_name # ""
          /\ Key(log[i].rec) = Key(log[j].rec)
          /\ log[i].rec # log[j].rec

\* C5: every record the parser makes whose current_price is 0.0 after the markup and
\* text extraction has started exactly one _fetch_current_price lookup, whether it
\* comes from a container, a quote link, embedded JSON or the text fallback.
C5_ZeroPriceLooksUp ==
    \A k \in 1..Len(log) : log[k].extracted = 0 => log[k].lookups = 1

\* "~" stands for the dash of the text, see ContainerPool.
C8Text == "Buy Reliance Industries; target of Rs 3000, CMP Rs 2500 ~ Research by Motilal Oswal"

\* C8: a container with the text of C8Text parses to the record of Reliance
\* Industries, broker Motilal Oswal, verdict BUY, target 3000.0 and current price 2500.0.
C8_Scenario ==
    [][(stage = "containers" /\ ContainerPool[page.containers[idx]].text = C8Text)
          => /\ Len(log') = Len(log) + 1
             /\ log'[Len(log')].rec =
                   BrokerRecommendation("Motilal Oswal", "Reliance Industries", "BUY",
                                        Rupees(3000), Rupees(2500))]_vars

\* C9: every record the parser returns has a company_name that is not empty, 3 to 50
\* characters long and accepted by is_valid_company_name, records of quote links included.
C9_CompanyNameValid ==
    stage = "done" =>
       \A i \in 1..Len(unique_recs) :
          /\ Len(unique_recs[i].company_name) >= 3
          /\ Len(unique_recs[i].company_name) <= 50
          /\ is_valid_company_name(unique_recs[i].company_name)

\* C10: every record the parser returns has target_price >= 0 and current_price >= 0,
\* records of embedded JSON included.
C10_PricesNotNegative ==
    stage = "done" =>
       \A i \in 1..Len(unique_recs) :
          unique_recs[i].target_price >= 0 /\ unique_recs[i].current_price >= 0

(***************************************************************************)
(* SpecNames: extract_recommendation and clean_company_name, each applied  *)
(* to a text drawn from the pools below.                                   *)
(***************************************************************************)

MaxWords == 2

\* Phrases of a call text.
VerdictWords == {"ACCUMULATE", "sells heavily", "hold steady", "Buy", "Reduce", "upHOLDS"}

VerdictTexts == {JoinSp(words) : words \in SeqsUpTo(VerdictWords, MaxWords)}

\* A raw company name is a prefix, a name and a tail.  The prefix is written <<as it
\* stands in the raw text, what is left of it without its first verdict word>>, the
\* name <<as it stands in the raw text, as it reads with its white space collapsed>>.
NamePrefixes ==
    {<<"", "">>, <<"Buy ", "">>, <<"SELL  ", "">>, <<"hold\t", "">>, <<"Buy Sell ", "Sell ">>}
NameCores ==
    {<<"Reliance Industries", "Reliance Industries">>, <<"TCS", "TCS">>,
     <<"Tata   Motors", "Tata Motors">>, <<"M&M  Fin. Services", "M&M Fin. Services">>}
NameTails ==
    {"", ": Motilal Oswal", " :  ICICI Sec. & Co ", "; target of Rs 3000 by March",
     ";target  of rs2500: Sharekhan", " ; Target of Rs 410"}

NameParts == [prefix : NamePrefixes, core : NameCores, tail : NameTails]

RawName(parts) == parts.prefix[1] \o parts.core[1] \o parts.tail

InitNames ==
    /\ call_text \in VerdictTexts
    /\ name_parts \in NameParts
    /\ verdict = ""
    /\ cleaned = ""
    /\ applied = {}
    /\ LookupAtRest
    /\ RequestsAtRest
    /\ PricesAtRest
    /\ HtmlAtRest
    /\ ParseAtRest
    /\ HandlersAtRest

ExtractRecommendation ==
    /\ "extract_recommendation" \notin applied
    /\ verdict' = extract_recommendation(call_text)
    /\ applied' = applied \cup {"extract_recommendation"}
    /\ UNCHANGED <<call_text, name_parts, cleaned, lookupVars, requestVars, parses, priceVars, htmlVars, parseVars,
                   handlerVars>>

CleanCompanyName ==
    /\ "clean_company_name" \notin applied
    /\ cleaned' = clean_company_name(RawName(name_parts))
    /\ applied' = applied \cup {"clean_company_name"}
    /\ UNCHANGED <<call_text, name_parts, verdict, lookupVars, requestVars, parses, priceVars, htmlVars, parseVars,
                   handlerVars>>

NextNames == ExtractRecommendation \/ CleanCompanyName

SpecNames == InitNames /\ [][NextNames]_vars

\* The word (in lower case) stands somewhere in the text, whatever the case.
Says(txt, word) == \E i \in 1..Len(txt) : LitAtI(txt, i, word)

\* C11: extract_recommendation answers every text with BUY, SELL or HOLD: BUY when the
\* text holds "buy" in any case, else SELL when it holds "sell", else HOLD when it holds
\* "hold", and BUY when it holds none of the three.
C11_VerdictBySubstring ==
    "extract_recommendation" \in applied =>
        /\ verdict \in {"BUY", "SELL", "HOLD"}
        /\ verdict = IF Says(call_text, "buy") THEN "BUY"
                     ELSE IF Says(call_text, "sell") THEN "SELL"
                     ELSE IF Says(call_text, "hold") THEN "HOLD"
                     ELSE "BUY"
        /\ call_text \in {"ACCUMULATE", "Reduce", ""} => verdict = "BUY"
        /\ call_text = "sells heavily" => verdict = "SELL"
        /\ call_text = "hold steady" => verdict = "HOLD"

C11_Witness ==
    /\ "extract_recommendation" \in applied
    /\ call_text = "Buy sells heavily"
    /\ verdict = "BUY"

\* C12: clean_company_name takes one leading Buy/Sell/Hold word (any case) with its
\* white space, a trailing "; target of Rs N..." clause and a trailing ": text" clause
\* of letters, white space, "&" and "." off the raw name, and collapses the white space
\* of what is left.
C12_CleanedIsTheName ==
    "clean_company_name" \in applied =>
        /\ cleaned = name_parts.prefix[2] \o name_parts.core[2]
        /\ RawName(name_parts) = "Buy Reliance Industries" => cleaned = "Reliance Industries"
        /\ RawName(name_parts) = "TCS: Motilal Oswal" => cleaned = "TCS"

C12_Witness ==
    /\ "clean_company_name" \in applied
    /\ name_parts = [prefix |-> <<"SELL  ", "">>, core |-> <<"Tata   Motors", "Tata Motors">>,
                     tail |-> ";target  of rs2500: Sharekhan"]
    /\ cleaned = "Tata Motors"

(***************************************************************************)
(* SpecLookup: one call of _fetch_current_price, the replies to the remote *)
(* calls of its three sub-strategies drawn from the pool below.            *)
(***************************************************************************)

\* The replies of one call of _fetch_current_price, its three sub-strategies together.
MaxReplies == 4

\* 9.99 and 50000.01 lie just outside the window, 10 and 50000 on its edges.
ReplyPool ==
    {Reply("error", 0), Reply("status", 0), Reply("unparsable", 0),
     Reply("price", Rupees(10) - 1), Reply("price", Rupees(10)),
     Reply("price", Rupees(50000)), Reply("price", Rupees(50000) + 1)}

SubStrategies == <<"search", "quote", "scrape">>

\* How many replies each of the three sub-strategies gets.
ReplyCounts == {n \in [1..3 -> 0..MaxReplies] : n[1] + n[2] + n[3] <= MaxReplies}

InitLookup ==
    /\ \E n \in ReplyCounts :
          quotes \in [1..n[1] -> ReplyPool] \X [1..n[2] -> ReplyPool] \X [1..n[3] -> ReplyPool]
    /\ lookup_pc = SubStrategies[1]
    /\ lookup_calls = << >>
    /\ lookup_price = 0
    /\ lookup_end = "none"
    /\ NamesAtRest
    /\ RequestsAtRest
    /\ PricesAtRest
    /\ HtmlAtRest
    /\ ParseAtRest
    /\ HandlersAtRest

\* _fetch_current_price ends: it returns price, or an exception leaves it.
LookupEnds(price, end) ==
    /\ lookup_price' = price
    /\ lookup_end' = end
    /\ lookup_pc' = "done"

\* price = self._fetch_price_from_...(company_name); if price > 0: return price
LookupStep(k, next) ==
    /\ lookup_pc = SubStrategies[k]
    /\ lookup_calls' = Append(lookup_calls, SubStrategies[k])
    /\ LET Go(r) ==
               IF r.landing = "caller" THEN LookupEnds(0, "raised")
               ELSE IF r.landing = "lookup" THEN LookupEnds(0, "returned")
               ELSE IF r.price > 0 THEN LookupEnds(r.price, "returned")
               ELSE IF next = "done" THEN LookupEnds(0, "returned")
               ELSE lookup_pc' = next /\ UNCHANGED <<lookup_price, lookup_end>>
       IN Go(SubStrategy(quotes[k]))
    /\ UNCHANGED <<quotes, nameVars, requestVars, parses, priceVars, htmlVars, parseVars, handlerVars>>

SearchApi == LookupStep(1, "quote")
QuoteApi == LookupStep(2, "scrape")
WebScraping == LookupStep(3, "done")

NextLookup == SearchApi \/ QuoteApi \/ WebScraping

SpecLookup == InitLookup /\ [][NextLookup]_vars

\* A reply that carries a price from 10 to 50000 rupees.
GoodReply(r) == r.kind = "price" /\ r.price >= 1000 /\ r.price <= 5000000

\* The sub-strategies with a good reply among theirs.
GoodAt == {k \in 1..3 : \E j \in 1..Len(quotes[k]) : GoodReply(quotes[k][j])}

\* C13: _fetch_current_price never raises: whatever the remote calls end in (a network
\* error, a status other than 200, an unparsable body, a price outside the window) it
\* returns a number, and 0.0 when all three sub-strategies fail.
C13_LookupNeverRaises ==
    /\ lookup_end # "raised"
    /\ lookup_pc = "done" /\ lookup_calls # << >> => lookup_end = "returned"
    /\ lookup_end = "returned" =>
          /\ lookup_price \in Nat
          /\ GoodAt = {} => lookup_price = 0

C13_Witness ==
    /\ lookup_end = "returned"
    /\ lookup_price = 0
    /\ lookup_calls = SubStrategies
    /\ quotes = << <<Reply("error", 0), Reply("status", 0)>>,
                   <<Reply("unparsable", 0)>>,
                   <<Reply("price", Rupees(50000) + 1)>> >>

\* C14: the sub-strategies run in the order search, quote by slug, company page, and
\* the lookup ends with the first that gives a price above 0, which is the first price
\* from 10 to 50000 rupees among its replies; no later sub-strategy runs, and every
\* result other than 0.0 lies in that window.
C14_FirstPriceInWindow ==
    /\ lookup_calls = SubSeq(SubStrategies, 1, Len(lookup_calls))
    /\ lookup_end = "returned" =>
          IF GoodAt = {}
          THEN lookup_price = 0 /\ lookup_calls = SubStrategies
          ELSE LET k == Min(GoodAt)
                   j == Min({i \in 1..Len(quotes[k]) : GoodReply(quotes[k][i])})
               IN /\ Len(lookup_calls) = k
                  /\ lookup_price = quotes[k][j].price
                  /\ lookup_price >= 1000 /\ lookup_price <= 5000000

C14_Witness ==
    /\ lookup_end = "returned"
    /\ lookup_calls = <<"search", "quote">>
    /\ lookup_price = Rupees(50000)
    /\ quotes = << <<Reply("price", Rupees(10) - 1)>>,
                   <<Reply("price", Rupees(50000) + 1), Reply("price", Rupees(50000))>>,
                   <<Reply("price", Rupees(10))>> >>

(***************************************************************************)
(* Spec: one invocation of a handler, with the acquisition cascade of      *)
(* get_recommendations behind it.  What the site serves, and whether an    *)
(* operation raises, is chosen at every step.                              *)
(***************************************************************************)

HeaderPool ==
    {NoHeaders,
     Headers(<< >>),
     Headers(<< <<"Content-Type", "application/json">> >>),
     Headers(<< <<"x-api-key", API_KEY>> >>),
     Headers(<< <<"X-API-KEY", "wrong-key">> >>),
     Headers(<< <<"X-Api-Key", "wrong-key">>, <<"x-api-key", API_KEY>> >>)}

Requests == [route : Routes, method : {"GET", "OPTIONS"}, headers : HeaderPool]

\* The pages the site may serve.
EmptyPage == NoPage
TataPage == [NoPage EXCEPT !.containers = <<2>>]
RichPage == [NoPage EXCEPT !.json = <<1, 2>>, !.containers = <<1>>, !.links = <<1>>]
ServedPages == <<EmptyPage, TataPage, RichPage>>

\* The price lookups the parser starts while it reads a page.
RECURSIVE Lookups(_)
Lookups(entries) ==
    IF entries = << >> THEN 0 ELSE Head(entries).lookups + Lookups(Tail(entries))

\* What _parse_html_content makes of a page: the list it returns and the lookups started.
ParseOf(cands, pg) ==
    LET Of(ps) == [recs |-> remove_duplicates(ps.recommendations), lookups |-> Lookups(ps.log)]
    IN Of(ParseAll(cands, pg))

Init ==
    /\ candidates = Candidates
    /\ served = [k \in DOMAIN ServedPages |-> ParseOf(candidates, ServedPages[k])]
    /\ request \in Requests
    /\ CrawlIdle
    /\ pc = "entry"
    /\ ParseIdle
    /\ PricesAtRest
    /\ HtmlAtRest
    /\ UnitsAtRest

\* The handler returns a response.
Answer(resp) ==
    /\ response' = resp
    /\ pc' = "done"
    /\ UNCHANGED <<request, crawlVars, parseVars, priceVars, htmlVars, unitVars>>

\* if event.get("httpMethod") == "OPTIONS": return create_response(200, "")
Options ==
    /\ pc = "entry"
    /\ AnswersOptions(request)
    /\ Answer(create_text_response(200, ""))

\* health_check_handler
Health ==
    /\ pc = "entry"
    /\ request.route = "health"
    /\ Answer(create_response(200, HealthResponse))

\* if not validate_api_key(event): return create_response(401, ...)
Unauthorized ==
    /\ pc = "entry"
    /\ request.route # "health"
    /\ ~ AnswersOptions(request)
    /\ ~ validate_api_key(request)
    /\ Answer(create_response(401, ErrorResponse("Invalid API key")))

\* cleanup_handler with a valid key
Cleanup ==
    /\ pc = "entry"
    /\ request.route = "cleanup"
    /\ validate_api_key(request)
    /\ Answer(create_response(200, MessageResponse("Docker container handles cleanup automatically")))

\* An exception at a site of the handler: the except clause of the handler answers
\* 500 with the message, or the exception leaves the handler when no try block is
\* around the site.
HandlerFails(site) ==
    IF Landing(HandlerEnclosing(request.route, site)) = "handler"
    THEN response' = create_response(500, ErrorResponse("str(e)")) /\ pc' = "done"
    ELSE response' = NoResponse /\ pc' = "raised"

\* crawler = MoneyControlCrawler(); crawler.get_recommendations() is entered.
StartCrawl ==
    /\ pc = "entry"
    /\ request.route \in CrawlRoutes
    /\ ~ AnswersOptions(request)
    /\ validate_api_key(request)
    /\ \/ /\ crawlers' = crawlers + 1
          /\ crawl' = "running"
          /\ pc' = "browser"
          /\ UNCHANGED <<response, failures>>
       \/ \* the constructor raises
          /\ HandlerFails("crawler")
          /\ failures' = failures \cup {"handler"}
          /\ UNCHANGED <<crawlers, crawl>>
    /\ UNCHANGED <<request, driver, url, profile, found, browser_result, http_result,
                   returned, network_calls, parseVars, priceVars, htmlVars, unitVars, httpVars>>

\* An exception reaches the caller of get_recommendations.
Raised ==
    /\ crawl' = "raised"
    /\ pc' = "respond"
    /\ UNCHANGED <<url, profile, found, browser_result, http_result, returned>>

\* get_recommendations returns a list.
Returns(list) ==
    /\ crawl' = "returned"
    /\ returned' = list
    /\ pc' = "respond"

\* The direct-HTTP strategy started whatever the browser strategy returned.
BrowserReturnsThenHttp(list) ==
    /\ browser_result' = list
    /\ pc' = "http"
    /\ profile' = 1
    /\ url' = 1
    /\ UNCHANGED <<crawl, returned>>

\* _get_recommendations_with_selenium returned list: a list that is not empty is
\* returned, an empty one gives way to the direct-HTTP strategy.
BrowserReturns(list) ==
    /\ browser_result' = list
    /\ IF list # << >>
       THEN Returns(list) /\ UNCHANGED <<url, profile>>
       ELSE /\ pc' = "http"
            /\ profile' = 1
            /\ url' = 1
            /\ UNCHANGED <<crawl, returned>>

\* The driver after the finally clause has been passed.
AfterFinally(started) ==
    IF ~started THEN "none" ELSE IF QuitsDriver(started) THEN "closed" ELSE "open"

\* An exception at a site of the browser strategy before the URLs are visited: the
\* strategy returns [], through the finally clause when a driver was started.
BrowserFails(site, started) ==
    /\ failures' = failures \cup {"browser"}
    /\ IF Unwind(site) = "caller"
       THEN Raised /\ driver' = AfterFinally(started)
       ELSE IF QuitsDriver(started)
       THEN /\ driver' = "open"
            /\ pc' = "quit"
            /\ found' = << >>
            /\ UNCHANGED <<url, profile, browser_result, http_result, returned, crawl>>
       ELSE /\ driver' = AfterFinally(started)
            /\ BrowserReturns(<< >>)
            /\ UNCHANGED <<found, http_result>>

\* The browser strategy up to its loop: imports and options, webdriver.Chrome, the
\* three execute_script calls.
BrowserSetup ==
    /\ pc = "browser"
    /\ \E outcome \in {"setup", "chrome", "script", "ready"} :
          IF outcome = "ready"
          THEN /\ driver' = "open"
               /\ pc' = "visit"
               /\ url' = 1
               /\ UNCHANGED <<profile, found, browser_result, http_result, returned, crawl, failures>>
          ELSE BrowserFails(outcome, outcome = "script")
    /\ UNCHANGED <<request, response, crawlers, network_calls, parseVars,
                   priceVars, htmlVars, unitVars, httpVars>>

\* The loop of the browser strategy without its break: every URL is visited.
NextBrowserUrlToTheLast(recs) ==
    /\ found' = recs
    /\ IF url = BrowserUrls
       THEN pc' = "quit" /\ url' = url
       ELSE pc' = "visit" /\ url' = url + 1
    /\ UNCHANGED <<driver, profile, browser_result, http_result, returned, crawl>>

\* The loop of the browser strategy goes on to the next URL, or ends.
NextBrowserUrl(recs) ==
    /\ found' = recs
    /\ IF Len(recs) >= EnoughRecords \/ url = BrowserUrls
       THEN pc' = "quit" /\ url' = url
       ELSE pc' = "visit" /\ url' = url + 1
    /\ UNCHANGED <<driver, profile, browser_result, http_result, returned, crawl>>

\* One URL of the browser strategy: driver.get, the block check with its refresh,
\* _parse_html_content(driver.page_source), recommendations.extend.
BrowserVisit ==
    /\ pc = "visit"
    /\ \/ \* driver.get raises
          /\ network_calls' = network_calls + 1
          /\ failures' = failures \cup {"browser"}
          /\ IF Unwind("visit") = "caller"
             THEN Raised /\ driver' = AfterFinally(TRUE)
             ELSE NextBrowserUrl(found)
       \/ \* the page is a block page and driver.refresh raises
          /\ network_calls' = network_calls + 2
          /\ failures' = failures \cup {"browser"}
          /\ IF Unwind("visit") = "caller"
             THEN Raised /\ driver' = AfterFinally(TRUE)
             ELSE NextBrowserUrl(found)
       \/ \* a page is read, after a refresh when a block page came first
          \E blocked \in BOOLEAN, pg \in DOMAIN served :
             LET Read(parse) ==
                     /\ network_calls' = network_calls + (IF blocked THEN 2 ELSE 1) + parse.lookups
                     /\ NextBrowserUrl(found \o parse.recs)
             IN /\ Read(served[pg])
                /\ UNCHANGED failures
    /\ UNCHANGED <<request, response, crawlers, parseVars, priceVars, htmlVars, unitVars, httpVars>>

\* finally: if driver: driver.quit(), and the strategy returns.
BrowserQuit ==
    /\ pc = "quit"
    /\ driver' = AfterFinally(driver = "open")
    /\ \/ /\ BrowserReturns(found)
          /\ UNCHANGED <<failures, found, http_result>>
       \/ \* driver.quit raises
          /\ QuitsDriver(driver = "open")
          /\ failures' = failures \cup {"browser"}
          /\ IF Unwind("quit") = "caller"
             THEN Raised
             ELSE BrowserReturns(<< >>) /\ UNCHANGED <<found, http_result>>
    /\ UNCHANGED <<request, response, crawlers, network_calls, parseVars,
                   priceVars, htmlVars, unitVars, httpVars>>

\* _get_recommendations_with_requests returned list, and so does get_recommendations.
HttpReturns(list) ==
    /\ http_result' = list
    /\ Returns(list)
    /\ UNCHANGED <<url, profile>>

\* The loop over the URLs goes on under the same profile.
NextUrlSameProfile ==
    /\ url' = url + 1
    /\ UNCHANGED <<pc, crawl, returned, http_result, profile>>

\* The loop over the profiles goes on, or ends with return [].
NextProfile ==
    IF profile < HttpProfiles
    THEN /\ profile' = profile + 1
         /\ url' = 1
         /\ UNCHANGED <<pc, crawl, returned, http_result>>
    ELSE HttpReturns(<< >>)

\* The loop over the URLs of a profile goes on, or ends.
NextHttpUrl ==
    IF url < HttpUrls
    THEN /\ url' = url + 1
         /\ UNCHANGED <<pc, crawl, returned, http_result, profile>>
    ELSE NextProfile

\* An exception of the direct-HTTP strategy lands in the try block around its site.
HttpFails(site) ==
    /\ failures' = failures \cup {"http"}
    /\ CASE Unwind(site) = "http_url" -> NextHttpUrl
         [] Unwind(site) = "profile" -> NextProfile
         [] OTHER -> Raised

\* One request of the direct-HTTP strategy: session.get(url, timeout=10) and what the
\* status makes of it; before the first URL of a profile, requests.Session().
HttpGet ==
    /\ pc = "http"
    /\ \/ \* requests.Session() raises
          /\ url = 1
          /\ HttpFails("session")
          /\ http_reply' = "session"
          /\ UNCHANGED <<network_calls, http_requests>>
       \/ \* session.get times out (except requests.exceptions.Timeout) or raises
          \* otherwise (except Exception)
          \E raised \in {"timeout", "error"} :
             /\ network_calls' = network_calls + 1
             /\ http_requests' = http_requests + 1
             /\ http_reply' = raised
             /\ HttpFails("get")
       \/ \* 403: break
          /\ network_calls' = network_calls + 1
          /\ http_requests' = http_requests + 1
          /\ http_reply' = "403"
          /\ NextProfile
          /\ UNCHANGED failures
       \/ \* another status than 200 and 403
          /\ network_calls' = network_calls + 1
          /\ http_requests' = http_requests + 1
          /\ http_reply' = "other"
          /\ NextHttpUrl
          /\ UNCHANGED failures
       \/ \* 200
          \E pg \in DOMAIN served :
             LET Read(parse) ==
                     /\ network_calls' = network_calls + 1 + parse.lookups
                     /\ IF parse.recs # << >> THEN HttpReturns(parse.recs) ELSE NextHttpUrl
             IN /\ Read(served[pg])
                /\ http_requests' = http_requests + 1
                /\ http_reply' = "200"
                /\ UNCHANGED failures
    /\ UNCHANGED <<request, response, driver, found, browser_result, crawlers, candidates,
                   parseVars, priceVars, htmlVars, unitVars>>

\* The handler makes its response of what get_recommendations returned; an exception
\* is answered with 500.
Respond ==
    /\ pc = "respond"
    /\ IF crawl = "raised"
       THEN HandlerFails("crawl")
       ELSE /\ response' = create_response(200, BodyOf(request.route, filter_recommendations(returned)))
            /\ pc' = "done"
    /\ UNCHANGED <<request, crawlVars, parseVars, priceVars, htmlVars, unitVars>>

Next ==
    \/ Options \/ Health \/ Unauthorized \/ Cleanup \/ StartCrawl
    \/ BrowserSetup \/ BrowserVisit \/ BrowserQuit \/ HttpGet \/ Respond

Spec == Init /\ [][Next]_vars

\* The headers hold no x-api-key, of whatever case, with the configured secret.
NoValidKey(event) ==
    \A k \in 1..Len(HeadersOf(event)) :
       Lower(HeadersOf(event)[k][1]) = "x-api-key" => HeadersOf(event)[k][2] # API_KEY

\* C1: get_recommendations never raises to its caller: whatever fails in the browser
\* strategy and in the direct-HTTP strategy it returns a list, and the empty list when
\* neither strategy yielded a record.
C1_NeverRaises ==
    /\ crawl # "raised"
    /\ crawl = "returned" =>
          /\ DOMAIN returned = 1..Len(returned)
          /\ (browser_result = << >> /\ http_result = << >>) => returned = << >>

\* Pages were loaded in the browser and requested directly, operations raised in both
\* strategies, and get_recommendations returned the empty list.
C1_Witness ==
    /\ crawl = "returned"
    /\ returned = << >>
    /\ driver = "closed"
    /\ failures = {"browser", "http"}
    /\ network_calls > BrowserUrls

\* C2: a handler other than the health check, invoked with a method other than OPTIONS
\* and headers without an x-api-key equal to the secret, answers 401 with the body
\* {error: "Invalid API key"}; no crawler is constructed and no network call is made.
C2_Gate ==
    [][(/\ pc = "entry"
        /\ request.route # "health"
        /\ request.method # "OPTIONS"
        /\ NoValidKey(request))
          => /\ pc' = "done"
             /\ response'.statusCode = 401
             /\ response'.body = [json |-> ErrorResponse("Invalid API key")]
             /\ crawlers' = 0
             /\ network_calls' = 0]_vars

\* A request with a wrong key was answered 401.
C2_Witness ==
    /\ pc = "done"
    /\ request.route \in CrawlRoutes
    /\ request.method = "GET"
    /\ HeadersOf(request) # << >>
    /\ NoValidKey(request)
    /\ \E k \in 1..Len(HeadersOf(request)) : Lower(HeadersOf(request)[k][1]) = "x-api-key"
    /\ response = create_response(401, ErrorResponse("Invalid API key"))
    /\ crawlers = 0
    /\ network_calls = 0

\* C4: the list get_recommendations returns never holds two records with the same
\* (lower(company_name), lower(broker_name)), the browser strategy's gathering over
\* several URLs included.
C4_ReturnedDeduplicated ==
    crawl = "returned" =>
       \A i, j \in 1..Len(returned) : i < j => Key(returned[i]) # Key(returned[j])

\* The browser strategy has returned or let an exception out.
BrowserOver == pc \in {"http", "respond", "done"}

\* C15: a driver the browser strategy created has had driver.quit called on it by the
\* time the strategy returns, whichever way the strategy ends.
C15_DriverReleased == BrowserOver => driver # "open"

\* The strategy ended on an exception with nothing found, and its driver was quit.
C15_Witness ==
    /\ pc = "http"
    /\ driver = "closed"
    /\ "browser" \in failures
    /\ network_calls = 0

\* The direct-HTTP strategy goes on with the next profile, or returns [] after the last.
ToNextProfile ==
    IF profile < 2
    THEN pc' = "http" /\ profile' = profile + 1 /\ url' = 1
    ELSE pc' = "respond" /\ crawl' = "returned" /\ http_result' = << >> /\ returned' = << >>

\* C16: the direct-HTTP strategy makes at most 2 x 3 = 6 page requests.  A request
\* answered 403 ends the URLs of its profile: the next request, if any, is the first of
\* the next profile.  A request that times out or raises otherwise is followed by the
\* next URL of the same profile (by the next profile after the profile's last URL).
C16_HttpRequests ==
    [][(pc = "http" /\ http_requests' # http_requests) =>
          /\ http_requests' = http_requests + 1
          /\ http_requests' <= 6
          /\ http_requests' <= 3 * (profile - 1) + url
          /\ http_reply' = "403" => ToNextProfile
          /\ http_reply' \in {"timeout", "error"} =>
                IF url < 3
                THEN pc' = "http" /\ profile' = profile /\ url' = url + 1
                ELSE ToNextProfile]_vars

\* The first URL of the first profile failed, the second was answered 403, and the
\* strategy stands at the first URL of the second profile.
C16_Witness ==
    /\ pc = "http"
    /\ http_reply = "403"
    /\ http_requests = 2
    /\ profile = 2 /\ url = 1
    /\ "http" \in failures

\* C17: the browser strategy visits its URLs in order and adds what each page gives
\* to what it has.  It stops as soon as it has 10 records or more, and otherwise goes
\* on to the next URL until the fourth; a URL that raises leaves the records of the
\* earlier ones as they are.
C17_VisitsInOrder ==
    [][(pc = "visit" /\ crawl' # "raised") =>
          /\ Len(found') >= Len(found)
          /\ SubSeq(found', 1, Len(found)) = found
          /\ "browser" \in failures' \ failures => found' = found
          /\ IF Len(found') >= 10 \/ url = 4
             THEN pc' = "quit" /\ url' = url
             ELSE pc' = "visit" /\ url' = url + 1]_vars

\* The third URL brought the list to 10 records or more, and the loop ended without a
\* visit of the fourth.
C17_Witness ==
    /\ pc = "quit"
    /\ url = 3
    /\ Len(found) >= 10
    /\ driver = "open"

\* C18: the cascade is ordered and its first success wins.  The direct-HTTP strategy
\* starts only when the browser strategy is over and has returned the empty list (an
\* exception inside it included); a list of the browser strategy that is not empty is
\* what get_recommendations returns, and no direct-HTTP request is made.
C18_FirstSuccessWins ==
    [][/\ (pc # "http" /\ pc' = "http") =>
             /\ pc \in {"browser", "quit"}
             /\ browser_result' = << >>
             /\ driver' # "open"
             /\ http_requests' = 0
       /\ http_requests' > 0 => browser_result' = << >>
       /\ (crawl' = "returned" /\ browser_result' # << >>) =>
             /\ returned' = browser_result'
             /\ http_requests' = 0
             /\ http_result' = << >>]_vars

\* The browser strategy returned records though one of its URLs raised; they are the
\* result, and the direct-HTTP strategy never ran.
C18_Witness ==
    /\ crawl = "returned"
    /\ browser_result # << >>
    /\ returned = browser_result
    /\ "browser" \in failures
    /\ http_requests = 0 /\ http_reply = "none" /\ profile = 0

C20_ExhaustedIsEmpty200 ==
    (/\ pc = "done"
     /\ request.route = "recommendations"
     /\ request.method = "GET"
     /\ crawl # "none"
     /\ browser_result = << >> /\ http_result = << >>) =>
        /\ response.statusCode = 200
        /\ response.body.json.recommendations = << >>
        /\ response.body.json.total_recommendations = 0

\* Operations raised in both strategies, the sixth direct request timed out, and the
\* handler answered 200 with no recommendations.
C20_Witness ==
    /\ pc = "done"
    /\ request.route = "recommendations"
    /\ request.method = "GET"
    /\ failures = {"browser", "http"}
    /\ http_requests = 6 /\ http_reply = "timeout"
    /\ response = [statusCode |-> 200,
                   body |-> [json |-> [recommendations |-> << >>, total_recommendations |-> 0]]]

TopAnswered(route) ==
    /\ pc = "done"
    /\ request.route = route
    /\ request.method = "GET"
    /\ response.statusCode = 200

\* The elements are objects of the three fields, ranked 1..n, n at most 10, in
\* descending order of the price.
RankedObjects(top, name_field, price_field) ==
    /\ Len(top) <= TopLimit
    /\ \A k \in 1..Len(top) :
          /\ DOMAIN top[k] = {"rank", name_field, price_field}
          /\ top[k].rank = k
          /\ k < Len(top) => top[k][price_field] >= top[k + 1][price_field]

\* C22: in the body of a top-companies (top-brokers) answer every element of
\* top_companies (top_brokers) is an object with the fields rank, company_name
\* (broker_name) and avg_target_price (best_target_price), the ranks being 1..n in
\* descending order of the price, n at most 10.
C22_TopElementsAreObjects ==
    /\ TopAnswered("top_companies") =>
          RankedObjects(response.body.json.top_companies, "company_name", "avg_target_price")
    /\ TopAnswered("top_brokers") =>
          RankedObjects(response.body.json.top_brokers, "broker_name", "best_target_price")

\* The records of the list given to the aggregation whose field holds name.
RecordsOf(recs, field, name) == {k \in 1..Len(recs) : recs[k][field] = name}

\* Of these, the records that carry a target price (0.0 means unknown).
WithTarget(recs, ks) == {k \in ks : recs[k].target_price > 0}

RECURSIVE TargetSum(_, _)
TargetSum(recs, ks) ==
    IF ks = {} THEN 0
    ELSE LET k == CHOOSE i \in ks : TRUE
         IN recs[k].target_price + TargetSum(recs, ks \ {k})

\* The hundredths nearest to the mean target price of the records ks.
MeanTarget(recs, ks) == Round2([sum |-> TargetSum(recs, ks), count |-> Cardinality(ks)])

\* The greatest target price of the records ks.
MaxTarget(recs, ks) == CHOOSE t \in {recs[k].target_price : k \in ks} :
                           \A k \in ks : recs[k].target_price <= t

\* Every reported broker has the greatest target price of all its records.
BrokersHaveMax(recs, top) ==
    \A k \in 1..Len(top) :
        top[k].str.best_target_price =
            MaxTarget(recs, RecordsOf(recs, "broker_name", top[k].str.broker_name))

\* C23 as stated: the value reported for a company is the mean target price of all
\* the company's records in the list, the value reported for a broker is the greatest
\* target price of all the broker's records.
C23_MeanOfAllRecords ==
    /\ TopAnswered("top_companies") =>
          LET recs == filter_recommendations(returned)
              top == response.body.json.top_companies
          IN \A k \in 1..Len(top) :
                 top[k].str.avg_target_price =
                     MeanTarget(recs, RecordsOf(recs, "company_name", top[k].str.company_name))
    /\ TopAnswered("top_brokers") =>
          BrokersHaveMax(filter_recommendations(returned), response.body.json.top_brokers)

\* C23 amended: the value reported for a company is the mean target price of the
\* company's records whose target price is above 0.0 (a record without a target price
\* does not count); the value reported for a broker is the greatest target price of
\* all the broker's records.
C23_MeanOfKnownTargets ==
    /\ TopAnswered("top_companies") =>
          LET recs == filter_recommendations(returned)
              top == response.body.json.top_companies
          IN \A k \in 1..Len(top) :
                 top[k].str.avg_target_price =
                     MeanTarget(recs, WithTarget(recs, RecordsOf(recs, "company_name",
                                                                 top[k].str.company_name)))
    /\ TopAnswered("top_brokers") =>
          BrokersHaveMax(filter_recommendations(returned), response.body.json.top_brokers)

\* A company with one record without a target price and one with a target of 3000.00
\* was reported with 3000.00.
C23_Witness ==
    /\ TopAnswered("top_companies")
    /\ \E k \in 1..Len(response.body.json.top_companies) :
          LET recs == filter_recommendations(returned)
              top == response.body.json.top_companies[k].str
              ks == RecordsOf(recs, "company_name", top.company_name)
          IN /\ WithTarget(recs, ks) # ks
             /\ WithTarget(recs, ks) # {}
             /\ top.avg_target_price = Rupees(3000)

(***************************************************************************)
(* SpecRequests: two invocations of a crawling handler run concurrently,   *)
(* their steps interleaved in any order.  An object is held by reference:  *)
(* a constructor call adds an object to the heap and the invocation keeps  *)
(* its place.  The acquisition cascade is one step here, the page it got   *)
(* being any page the site serves.                                         *)
(***************************************************************************)

Invocations == {1, 2}

NoCall == [pc |-> "entry", crawler |-> 0, page |-> 0, stage |-> "done", idx |-> 1,
           recommendations |-> 0, processed_recommendations |-> 0, result |-> << >>]

\* A module-level object made once and used by every invocation.
AllocateOnce(objects, fresh) == IF objects = << >> THEN <<fresh>> ELSE objects

\* A constructor call (requests.Session(), MoneyControlCrawler(), [], set()) makes an
\* object of its own; the caller's reference is the place of the last object.
Allocate(objects, fresh) == Append(objects, fresh)

InitRequests ==
    /\ calls = [r \in Invocations |-> NoCall]
    /\ heap = NoHeap
    /\ parses = << >>
    /\ candidates = Candidates
    /\ served = [k \in DOMAIN ServedPages |-> ParseOf(candidates, ServedPages[k])]
    /\ ParseIdle
    /\ PricesAtRest
    /\ HtmlAtRest
    /\ HandlersAtRest
    /\ NamesAtRest
    /\ LookupAtRest

RequestStep(r, call, hp) ==
    /\ calls' = [calls EXCEPT ![r] = call]
    /\ heap' = hp
    /\ UNCHANGED <<priceVars, htmlVars, parseVars, handlerVars, nameVars, lookupVars, parses>>

\* crawler = MoneyControlCrawler(): the constructor makes self.session.
Construct(r) ==
    LET WithCrawler(sessions) ==
            [heap EXCEPT !.sessions = sessions,
                         !.crawlers = Allocate(@, [session |-> Len(sessions)])]
        Made(hp) == RequestStep(r, [calls[r] EXCEPT !.pc = "get", !.crawler = Len(hp.crawlers)], hp)
    IN /\ calls[r].pc = "entry"
       /\ Made(WithCrawler(Allocate(heap.sessions, 0)))

\* crawler.get_recommendations(): the page is got through the crawler's session.
Fetch(r) ==
    LET session == heap.crawlers[calls[r].crawler].session
    IN /\ calls[r].pc = "get"
       /\ \E k \in DOMAIN served :
             RequestStep(r, [calls[r] EXCEPT !.pc = "parse", !.page = k],
                         [heap EXCEPT !.sessions[session] = @ + 1])

\* _parse_html_content: recommendations = [] and processed_recommendations = set().
BeginParse(r) ==
    LET Made(hp, at) ==
            RequestStep(r, [calls[r] EXCEPT !.pc = "loop", !.stage = at[1], !.idx = at[2],
                                            !.recommendations = Len(hp.lists),
                                            !.processed_recommendations = Len(hp.sets)], hp)
    IN /\ calls[r].pc = "parse"
       /\ Made([heap EXCEPT !.lists = Allocate(@, << >>), !.sets = Allocate(@, {})],
               StartAt(ServedPages[calls[r].page]))

\* One turn of the loop the parser of invocation r is in, on the list and the set it
\* holds.
ParseTurn(r) ==
    LET c == calls[r]
        Moves(after, at) ==
            RequestStep(r, [c EXCEPT !.stage = at[1], !.idx = at[2]],
                        [heap EXCEPT !.lists[c.recommendations] = after.recommendations,
                                     !.sets[c.processed_recommendations] =
                                         after.processed_recommendations])
        Reads(pg, after) == Moves(after, Settle(pg, c.stage, c.idx + 1, after.recommendations))
        Turn(pg) ==
            Reads(pg, StageStep(candidates, pg, c.stage, c.idx,
                                [NoParse EXCEPT
                                    !.recommendations = heap.lists[c.recommendations],
                                    !.processed_recommendations =
                                        heap.sets[c.processed_recommendations]]))
    IN /\ c.pc = "loop"
       /\ c.stage # "dedup"
       /\ Turn(ServedPages[c.page])

\* return self._remove_duplicates(recommendations)
ParseReturn(r) ==
    /\ calls[r].pc = "loop"
    /\ calls[r].stage = "dedup"
    /\ RequestStep(r, [calls[r] EXCEPT !.pc = "done",
                                       !.result = remove_duplicates(
                                                      heap.lists[calls[r].recommendations])],
                   heap)

NextRequests ==
    \E r \in Invocations :
        Construct(r) \/ Fetch(r) \/ BeginParse(r) \/ ParseTurn(r) \/ ParseReturn(r)

SpecRequests == InitRequests /\ [][NextRequests]_vars

\* C24: no mutable state is shared between requests: each invocation holds a crawler
\* and a session of its own, the list and the set of a parse call belong to that call,
\* and whatever the interleaving of two concurrent requests, the records returned to a
\* request are those its own page gives, whatever the other request does.
C24_RequestsIsolated ==
    /\ \A r \in Invocations :
          calls[r].pc = "done" => calls[r].result = served[calls[r].page].recs
    /\ \A r, q \in Invocations :
          r # q =>
            /\ (calls[r].crawler # 0 /\ calls[q].crawler # 0) =>
                  /\ calls[r].crawler # calls[q].crawler
                  /\ heap.crawlers[calls[r].crawler].session
                        # heap.crawlers[calls[q].crawler].session
            /\ (calls[r].recommendations # 0 /\ calls[q].recommendations # 0) =>
                  /\ calls[r].recommendations # calls[q].recommendations
                  /\ calls[r].processed_recommendations # calls[q].processed_recommendations

\* One invocation began to parse, the other began after it and has returned a record
\* whose key the first holds in its set, while the first is still in its loops.
C24_Witness ==
    \E r, q \in Invocations :
        /\ calls[r].pc = "loop"
        /\ calls[q].pc = "done"
        /\ calls[q].processed_recommendations > calls[r].processed_recommendations
        /\ \E k \in 1..Len(calls[q].result) :
              Key(calls[q].result[k]) \in heap.sets[calls[r].processed_recommendations]

(***************************************************************************)
(* SpecReparse: _parse_html_content is called again and again on one page. *)
(* The page is the markup; what the remote price lookups of a call are     *)
(* answered is not part of it and is chosen anew at every call.            *)
(***************************************************************************)

MaxParses == 2

\* What the three sub-strategies of the lookups of one call may be answered: nothing,
\* a price to the first, a price outside the window and then one to the second.
NetworkReplies ==
    << << << >>, << >>, << >> >>,
       << <<Rupees(120)>>, << >>, << >> >>,
       << <<Rupees(5)>>, <<Rupees(250)>>, << >> >> >>

\* What the extractors make of the pool items when the lookups get these replies.
CandidatesUnder(replies) ==
    [Candidates EXCEPT
        !.containers = [k \in DOMAIN ContainerPool |->
                           ContainerCandidate([ContainerPool[k] EXCEPT !.quotes = replies])]]

InitReparse ==
    /\ candidates = [j \in DOMAIN NetworkReplies |-> CandidatesUnder(NetworkReplies[j])]
    /\ served = << >>
    /\ page \in Pages
    /\ stage = "done" /\ idx = 1
    /\ recommendations = << >> /\ processed_recommendations = {} /\ log = << >>
    /\ unique_recs = << >>
    /\ parses = << >>
    /\ calls = << >> /\ heap = NoHeap
    /\ PricesAtRest
    /\ HtmlAtRest
    /\ HandlersAtRest
    /\ NamesAtRest
    /\ LookupAtRest

\* One more call of _parse_html_content on the page.
Reparse ==
    /\ Len(parses) < MaxParses
    /\ \E j \in DOMAIN candidates : parses' = Append(parses, ParseWith(candidates[j], page))
    /\ UNCHANGED <<priceVars, htmlVars, parseVars, handlerVars, nameVars, lookupVars, requestVars>>

NextReparse == Reparse

SpecReparse == InitReparse /\ [][NextReparse]_vars

\* C25: calling the content parser again on the same markup gives the same list of
\* records: the same companies, brokers, verdicts and prices in the same order.
C25_ReparseSame == \A a, b \in 1..Len(parses) : parses[a] = parses[b]

\* The rule whose turn has just been taken.
RuleRun == PriceRuleNames[rule']

\* The slots a step of _extract_prices has assigned.
Assigned == {slot \in {"current_price", "target_price"} : prices'[slot] # prices[slot]}

\* C26: _extract_prices never returns a negative number, and a value assigned by a
\* window-filtering rule is inside the window: 10 to 50000 for numbers with the currency
\* prefix, 100 to 20000 for bare numeric tokens.
C26_AssignedInsideWindow ==
    [][/\ prices'.current_price >= 0
       /\ prices'.target_price >= 0
       /\ \A slot \in Assigned :
             /\ RuleRun = "AnyRs" => InWindow(prices'[slot])
             /\ RuleRun \in {"NumberPair", "Standalone"} => Realistic(prices'[slot])]_vars

\* C27: the parser reads the texts only when the embedded JSON, the containers and the
\* links have left the list of recommendations empty; it then reads at most the first 20
\* texts, and a text adds at most one record.
C27_TextFallback ==
    [][stage = "texts" =>
          /\ idx = 1 => recommendations = << >>
          /\ idx <= TextLimit
          /\ Len(recommendations') <= Len(recommendations) + 1]_vars

\* A page of 21 texts of which only the last gives a record: the loop over the texts has
\* ended and nothing was found.
C27_Witness ==
    /\ stage = "dedup"
    /\ Len(page.texts) = TextLimit + 1
    /\ TextCandidates[page.texts[TextLimit + 1]] # << >>
    /\ recommendations = << >>

(***************************************************************************)
(* SpecParseFaults: _parse_html_content on a page some of whose items make *)
(* the extraction raise (a node without text, a record without a broker    *)
(* name, a fragment json.loads rejects).  The site of an exception is the  *)
(* loop it is raised in.                                                   *)
(***************************************************************************)

MaxItems == 3
MaxFailures == 2

\* Only the try block around the body of _parse_html_content.
ParseEnclosingOuter(site) == <<"parse">>

\* The try blocks around the reading of one item, innermost first: the one inside the
\* loop, for the embedded JSON also the one around the script, and the one around the
\* body of _parse_html_content.
ParseEnclosing(site) ==
    CASE site = "json" -> <<"fragment", "script", "parse">>
      [] site = "containers" -> <<"container", "parse">>
      [] site = "links" -> <<"link", "parse">>
      [] site = "texts" -> <<"text", "parse">>

ItemCount(pg) == Len(pg.json) + Len(pg.containers) + Len(pg.links) + Len(pg.texts)

FaultPages == {pg \in ShortPages : ItemCount(pg) <= MaxItems}

InitFaults ==
    /\ candidates = Candidates
    /\ served = << >>
    /\ page \in FaultPages
    /\ stage = StartAt(page)[1]
    /\ idx = StartAt(page)[2]
    /\ recommendations = << >>
    /\ processed_recommendations = {}
    /\ log = << >>
    /\ unique_recs = << >>
    /\ PricesAtRest
    /\ HtmlAtRest
    /\ HandlersAtRest
    /\ UnitsAtRest

\* The reading of the item raises: the exception is caught by the try block of the
\* loop, which goes on with the next item (continue); caught around the script, it ends
\* the embedded JSON; caught around the body, the parser returns [].
ParseRaises ==
    LET GoesOn(at) ==
            /\ stage' = at[1]
            /\ idx' = at[2]
            /\ UNCHANGED unique_recs
        GivesUp(list) ==
            /\ stage' = "done"
            /\ unique_recs' = list
            /\ UNCHANGED idx
        Lands(block) ==
            IF block = "parse" THEN GivesUp(<< >>)
            ELSE IF block = "script" THEN GoesOn(Settle(page, "containers", 1, recommendations))
            ELSE GoesOn(Settle(page, stage, idx + 1, recommendations))
    IN /\ stage \in {"json", "containers", "links", "texts"}
       /\ Cardinality(failures) < MaxFailures
       /\ failures' = failures \cup {<<stage, idx>>}
       /\ Lands(Landing(ParseEnclosing(stage)))
       /\ UNCHANGED <<candidates, served, page, recommendations, processed_recommendations, log,
                      request, response, pc, driver, url, profile, found, browser_result,
                      http_result, returned, crawl, crawlers, network_calls, httpVars,
                      priceVars, htmlVars, unitVars>>

NextFaults == NextParse \/ ParseRaises

SpecParseFaults == InitFaults /\ [][NextFaults]_vars

\* The tables with one more entry in each: an item of which nothing is made.
WithNothing(cands) == [st \in DOMAIN cands |-> Append(cands[st], << >>)]

\* The page with the items of failed standing for nothing.
Blanked(pg, cands, failed) ==
    [st \in DOMAIN pg |->
        [i \in DOMAIN pg[st] |-> IF <<st, i>> \in failed THEN Len(cands[st]) + 1 ELSE pg[st][i]]]

\* C28: a failure while one candidate is extracted drops that candidate alone: the
\* parser returns what it returns for the page on which the failed candidates give
\* nothing, every other candidate being processed and its record kept.
C28_FailureDropsOneCandidate ==
    stage = "done" =>
        unique_recs = ParseWith(WithNothing(candidates), Blanked(page, candidates, failures))

\* The reading of an item that gives a record raised, a later item of the same loop
\* gave a record, and the parser returned the later one without the former.
C28_Witness ==
    /\ stage = "done"
    /\ \E f \in failures :
          \E i \in DOMAIN page[f[1]] :
              LET lost == candidates[f[1]][page[f[1]][f[2]]]
                  kept == candidates[f[1]][page[f[1]][i]]
              IN /\ i > f[2]
                 /\ lost # << >>
                 /\ kept # << >>
                 /\ \E k \in 1..Len(unique_recs) : unique_recs[k] = kept[1].rec
                 /\ \A k \in 1..Len(unique_recs) : Key(unique_recs[k]) # Key(lost[1].rec)

\* The slots once the keyword-anchored rules have run, "CMP:" being the last of them.
Anchored(txt) ==
    PricesAfter(txt, CHOOSE k \in DOMAIN PriceRuleNames : PriceRuleNames[k] = "Cmp")

\* What the paired-number rules would put in a slot the anchored rules left empty.
PairedValues(txt, slot) ==
    {ApplyPriceRule(r, txt, Anchored(txt))[slot] : r \in {"Range", "Bracket", "BuyTarget"}} \ {0}

\* C29: the textual rules run in the order of their families, the keyword-anchored
\* rules, then every paired-number rule (the range, the bracketed pair, "buy at N1,
\* target N2"), then the numbers with the currency prefix wherever they stand: when a
\* paired-number rule and the unanchored rule would both fill an empty slot,
\* _extract_prices returns the value of the paired-number rule.
C29_PairedBeforeUnanchored ==
    rule = Len(PriceRuleNames) =>
        \A slot \in {"current_price", "target_price"} :
            (/\ Anchored(text)[slot] = 0
             /\ PairedValues(text, slot) # {}
             /\ ApplyPriceRule("AnyRs", text, Anchored(text))[slot] # 0)
            => prices[slot] \in PairedValues(text, slot)

\* The lesser of a pair for the current price, the greater for the target price.
SlotOf(slot, low, high) == IF slot = "current_price" THEN low ELSE high

\* C30: the rules over bare numbers use numbers of 3 to 5 digits inside the window 100
\* to 20000 only and fill a slot only when there are two of them: the number-pair rule
\* takes two numbers side by side that differ by less than half of the first, the
\* standalone rule the least of the numbers for the current price and the greatest for
\* the target price.
C30_BareNumbersInsideWindow ==
    [][\A slot \in Assigned :
          /\ RuleRun = "NumberPair" =>
                \E k \in DOMAIN FindAllPairs(text, 1) :
                    LET pair == FindAllPairs(text, 1)[k]
                    IN /\ Realistic(pair[1]) /\ Realistic(pair[2])
                       /\ 2 * (MaxOf(pair[1], pair[2]) - MinOf(pair[1], pair[2])) < pair[1]
                       /\ prices'[slot] = SlotOf(slot, MinOf(pair[1], pair[2]),
                                                 MaxOf(pair[1], pair[2]))
          /\ RuleRun = "Standalone" =>
                LET numbers == SelectSeq(FindAllStandalone(text, 1), Realistic)
                IN /\ Len(numbers) >= 2
                   /\ prices'[slot] = SlotOf(slot, SeqMin(numbers), SeqMax(numbers))]_vars

====
